---------------------------- MODULE Spec2Model ----------------------------
(***************************************************************************)
(* TrialMatchAI: the rule-based medical entity extractor                    *)
(* (models/nlp_model.py), the weighted trial matcher (utils/matcher.py),    *)
(* the eligibility parser (utils/eligibility_parser.py), the geographic     *)
(* matcher (utils/geographic_matcher.py) and the CSV cleaner                *)
(* (clean_trials.py).                                                       *)
(*                                                                         *)
(* Python strings are TLA+ strings, indexed with SubSeq and Len.  Scores    *)
(* are kept exactly, as integers: a field sub-score in tenths (2.0 -> 20), *)
(* a field weight in tenths (0.3 -> 3), a total score in hundredths, a      *)
(* confidence percentage in tenths of a percent (100.0 -> 1000).            *)
(* Eligibility scores are in units of 1/ScoreUnit, numbers read from a     *)
(* criterion in hundredths, distances in hundredths of a mile and          *)
(* coordinates in ten-thousandths of a degree.                              *)
(***************************************************************************)
EXTENDS Integers, Sequences, FiniteSets, TLC

(***************************************************************************)
(* Python str primitives                                                    *)
(***************************************************************************)
UpperChars == "ABCDEFGHIJKLMNOPQRSTUVWXYZ"
LowerChars == "abcdefghijklmnopqrstuvwxyz"
DigitChars == "0123456789"

\* s[i] for a 1-based position, "" outside the string
CharAt(s, i) == IF i >= 1 /\ i <= Len(s) THEN SubSeq(s, i, i) ELSE ""

\* c in chars, for a one-character c
CharIn(c, chars) == c # "" /\ \E i \in 1..Len(chars) : SubSeq(chars, i, i) = c

\* str.isspace for the characters the texts use
IsSpace(c) == c = " " \/ c = "\t" \/ c = "\n"

\* \d
IsDigit(c) == CharIn(c, DigitChars)

\* \w of the re module: letters, digits and the underscore
IsWordChar(c) == CharIn(c, LowerChars) \/ CharIn(c, UpperChars) \/ IsDigit(c) \/ c = "_"

LowerChar(c) ==
    IF CharIn(c, UpperChars)
    THEN LET i == CHOOSE k \in 1..Len(UpperChars) : SubSeq(UpperChars, k, k) = c
         IN  SubSeq(LowerChars, i, i)
    ELSE c

RECURSIVE StrLower(_)
\* str.lower
StrLower(s) ==
    IF s = "" THEN "" ELSE LowerChar(SubSeq(s, 1, 1)) \o StrLower(SubSeq(s, 2, Len(s)))

RECURSIVE LStrip(_)
LStrip(s) == IF s # "" /\ IsSpace(CharAt(s, 1)) THEN LStrip(SubSeq(s, 2, Len(s))) ELSE s

RECURSIVE RStrip(_)
RStrip(s) ==
    IF s # "" /\ IsSpace(CharAt(s, Len(s))) THEN RStrip(SubSeq(s, 1, Len(s) - 1)) ELSE s

\* str.strip
StrStrip(s) == RStrip(LStrip(s))

\* `sub in s` for Python strings
StrContains(s, sub) ==
    \E i \in 1..(Len(s) - Len(sub) + 1) : SubSeq(s, i, i + Len(sub) - 1) = sub

RECURSIVE SplitFrom(_, _, _)
\* str.split(): the maximal runs of non-whitespace, left to right
SplitFrom(s, i, cur) ==
    IF i > Len(s) THEN (IF cur = "" THEN <<>> ELSE <<cur>>)
    ELSE IF IsSpace(CharAt(s, i))
         THEN (IF cur = "" THEN <<>> ELSE <<cur>>) \o SplitFrom(s, i + 1, "")
         ELSE SplitFrom(s, i + 1, cur \o CharAt(s, i))

StrSplit(s) == SplitFrom(s, 1, "")

(***************************************************************************)
(* Python list and set primitives                                           *)
(***************************************************************************)
ToSet(seq) == {seq[i] : i \in 1..Len(seq)}

SeqContains(seq, x) == \E i \in 1..Len(seq) : seq[i] = x

\* front with x appended unless it is there already
AddNew(front, x) == IF SeqContains(front, x) THEN front ELSE Append(front, x)

RECURSIVE Dedup(_)
\* the distinct elements of a list, in order of first occurrence
Dedup(seq) ==
    IF seq = <<>> THEN <<>>
    ELSE AddNew(Dedup(SubSeq(seq, 1, Len(seq) - 1)), seq[Len(seq)])

\* a list given item by item, as the list of its items, each computed once
ListOf(items) == items \o <<>>

\* a dict given key by key, as the table of its values, each computed once
DictOf(items) == items @@ <<>>

Reverse(seq) == ListOf([i \in 1..Len(seq) |-> seq[Len(seq) + 1 - i]])

\* list(set(seq)): the distinct elements in an order the language leaves open;
\* ord picks it
ListOfSet(seq, ord) == IF ord = "fwd" THEN Dedup(seq) ELSE Reverse(Dedup(seq))

(***************************************************************************)
(* The fragment of the re module the extractor's patterns use               *)
(***************************************************************************)
\* regular expressions as trees
Lit(s) == [t |-> "lit", s |-> s]
Alt(rs) == [t |-> "alt", rs |-> rs]
Cat(rs) == [t |-> "cat", rs |-> rs]
Plus(cls) == [t |-> "plus", c |-> cls]
Star(cls) == [t |-> "star", c |-> cls]
Opt(r) == [t |-> "opt", r |-> r]

\* the character classes \s, \d, [ivx0-9] and [^,]
InClass(c, cls) ==
    CASE cls = "space" -> IsSpace(c)
      [] cls = "digit" -> IsDigit(c)
      [] cls = "stage" -> CharIn(c, "ivx") \/ IsDigit(c)
      [] cls = "nocomma" -> c # "" /\ c # ","
      [] OTHER -> FALSE

RECURSIVE RunLen(_, _, _)
\* the length of the longest run of cls characters of s that starts at i
RunLen(s, i, cls) == IF InClass(CharAt(s, i), cls) THEN 1 + RunLen(s, i + 1, cls) ELSE 0

RECURSIVE Ends(_, _, _)
RECURSIVE EndsCat(_, _, _, _)
RECURSIVE EndsAlt(_, _, _, _)
RECURSIVE EndsFrom(_, _, _, _, _)
\* The positions just after a match of re that starts at s[i], in the order a
\* backtracking matcher tries them (alternatives left to right, repetition
\* greedy).
Ends(re, s, i) ==
    CASE re.t = "lit" ->
           IF i + Len(re.s) - 1 <= Len(s) /\ SubSeq(s, i, i + Len(re.s) - 1) = re.s
           THEN <<i + Len(re.s)>> ELSE <<>>
      [] re.t = "alt" -> EndsAlt(re.rs, 1, s, i)
      [] re.t = "cat" -> EndsCat(re.rs, 1, s, i)
      [] re.t = "plus" -> LET n == RunLen(s, i, re.c) IN [k \in 1..n |-> i + n + 1 - k]
      [] re.t = "star" -> LET n == RunLen(s, i, re.c) IN [k \in 1..(n + 1) |-> i + n + 1 - k]
      [] re.t = "opt" -> Ends(re.r, s, i) \o <<i>>

EndsAlt(rs, k, s, i) ==
    IF k > Len(rs) THEN <<>> ELSE Ends(rs[k], s, i) \o EndsAlt(rs, k + 1, s, i)

\* rs[k..] matched from each of the positions es[j..], in order
EndsFrom(rs, k, s, es, j) ==
    IF j > Len(es) THEN <<>>
    ELSE EndsCat(rs, k, s, es[j]) \o EndsFrom(rs, k, s, es, j + 1)

EndsCat(rs, k, s, i) ==
    IF k > Len(rs) THEN <<i>> ELSE EndsFrom(rs, k + 1, s, Ends(rs[k], s, i), 1)

\* \b at the gap before s[i]
WordBoundary(s, i) == IsWordChar(CharAt(s, i - 1)) # IsWordChar(CharAt(s, i))

\* A pattern \b(g1)\b, or \b(g1)sep(g2)\b with two groups.
Pattern1(g1) == [g1 |-> g1, groups |-> 1]
Pattern2(g1, sep, g2) == [g1 |-> g1, sep |-> sep, g2 |-> g2, groups |-> 2]

\* some position of es is at a word boundary
HasBoundaryEnd(s, es) == \E k \in DOMAIN es : WordBoundary(s, es[k])

\* the first position of es that is at a word boundary
FirstBoundaryEnd(s, es) ==
    es[CHOOSE k \in DOMAIN es :
          WordBoundary(s, es[k]) /\ \A m \in 1..(k - 1) : ~WordBoundary(s, es[m])]

\* what findall reports for a one-group match s[i..e-1], with its end
Found1(s, i, e) == <<e, SubSeq(s, i, e - 1)>>

\* the match of \b(g1)\b at s[i], g1 ending at one of es
Match1(s, i, es) ==
    IF HasBoundaryEnd(s, es) THEN Found1(s, i, FirstBoundaryEnd(s, es)) ELSE <<>>

\* The ways \b(g1)sep(g2)\b matches at s[i]: <<a, b, c, e1, e2, e3>> where g1
\* ends at e1, sep at e2, g2 at e3, and a, b, c are their ranks in the order
\* the matcher tries them.
Ways3(s, a, b, e1, e2, e3s) ==
    {<<a, b, c, e1, e2, e3s[c]>> : c \in {k \in DOMAIN e3s : WordBoundary(s, e3s[k])}}

Ways2(p, s, a, e1, e2s) ==
    UNION {Ways3(s, a, b, e1, e2s[b], Ends(p.g2, s, e2s[b])) : b \in DOMAIN e2s}

Ways1(p, s, e1s) ==
    UNION {Ways2(p, s, a, e1s[a], Ends(p.sep, s, e1s[a])) : a \in DOMAIN e1s}

\* the way the matcher finds first
FirstWay(ways) ==
    CHOOSE x \in ways : \A y \in ways :
        \/ x[1] < y[1]
        \/ x[1] = y[1] /\ x[2] < y[2]
        \/ x[1] = y[1] /\ x[2] = y[2] /\ x[3] <= y[3]

\* what findall reports for a two-group match, the tuple joined with one
\* space as the extractor joins it, with the match's end
Found2(s, i, w) == <<w[6], SubSeq(s, i, w[4] - 1) \o " " \o SubSeq(s, w[5], w[6] - 1)>>

Match2(s, i, ways) == IF ways = {} THEN <<>> ELSE Found2(s, i, FirstWay(ways))

\* The first match of p that starts at s[i], as <<end, what findall reports>>,
\* or <<>> when p does not match at i.
MatchAt(p, s, i) ==
    IF ~WordBoundary(s, i) THEN <<>>
    ELSE IF p.groups = 1 THEN Match1(s, i, Ends(p.g1, s, i))
    ELSE Match2(s, i, Ways1(p, s, Ends(p.g1, s, i)))

RECURSIVE FindAllFrom(_, _, _)
RECURSIVE FindAllStep(_, _, _, _)
\* the matches of p in s[i..], left to right, none overlapping another
FindAllFrom(p, s, i) ==
    IF i > Len(s) THEN <<>> ELSE FindAllStep(p, s, i, MatchAt(p, s, i))

\* m is the match at i, if any: the scan goes on after it
FindAllStep(p, s, i, m) ==
    IF m = <<>> THEN FindAllFrom(p, s, i + 1)
    ELSE <<m[2]>> \o FindAllFrom(p, s, m[1])

\* re.findall(p, s), each two-group tuple already joined with ' '
FindAll(p, s) == FindAllFrom(p, s, 1)

RECURSIVE FindAllOf(_, _, _)
\* the matches of the patterns ps[k..], pattern by pattern
FindAllOf(ps, k, s) ==
    IF k > Len(ps) THEN <<>> ELSE FindAll(ps[k], s) \o FindAllOf(ps, k + 1, s)

\* a|b|c for literal alternatives
Words(ws) == Alt([k \in 1..Len(ws) |-> Lit(ws[k])])

(***************************************************************************)
(* models/nlp_model.py: MedicalEntityExtractor                              *)
(***************************************************************************)
\* the alternatives of the first condition pattern
CancerTypeTokens ==
    <<"breast", "lung", "prostate", "colon", "pancreatic", "ovarian", "brain", "liver",
      "kidney", "bladder", "cervical", "endometrial", "thyroid", "leukemia", "lymphoma",
      "melanoma", "sarcoma", "cancer", "carcinoma", "tumor", "tumour", "neoplasm">>

condition_patterns == <<
    Pattern1(Words(CancerTypeTokens)),
    Pattern1(Cat(<<Lit("stage"), Plus("space"), Plus("stage")>>)),
    Pattern2(Words(<<"her2", "her-2", "egfr", "kras", "braf", "alk", "ros1", "pdl1",
                     "msi", "tmb">>),
             Star("space"),
             Words(<<"positive", "negative", "high", "low", "mutated", "wild", "type">>)),
    Pattern1(Alt(<<Lit("metastatic"), Lit("metastasis"), Lit("advanced"),
                   Cat(<<Lit("locally"), Plus("space"), Lit("advanced")>>),
                   Lit("recurrent"), Lit("relapse")>>)) >>

demo_patterns == <<
    Pattern1(Words(<<"male", "female", "m", "f">>)),
    Pattern2(Plus("digit"),
             Star("space"),
             Alt(<<Cat(<<Lit("year"), Opt(Lit("s")), Star("space"), Lit("old")>>),
                   Lit("yo"), Lit("y.o.")>>)),
    Pattern1(Alt(<<Lit("adult"), Cat(<<Lit("older"), Plus("space"), Lit("adult")>>),
                   Lit("pediatric"), Lit("child"), Lit("infant")>>)) >>

treatment_patterns == <<
    Pattern1(Alt(<<Lit("chemotherapy"), Lit("chemo"), Lit("radiation"),
                   Lit("radiotherapy"), Lit("surgery"), Lit("surgical"),
                   Lit("immunotherapy"),
                   Cat(<<Lit("targeted"), Plus("space"), Lit("therapy")>>),
                   Cat(<<Lit("hormone"), Plus("space"), Lit("therapy")>>)>>)),
    Pattern2(Alt(<<Lit("prior"), Lit("previous"),
                   Cat(<<Lit("history"), Plus("space"), Lit("of")>>),
                   Cat(<<Lit("no"), Plus("space"), Lit("prior")>>)>>),
             Plus("space"),
             Words(<<"chemotherapy", "chemo", "radiation", "surgery">>)),
    Pattern1(Alt(<<Lit("smoker"), Lit("non-smoker"),
                   Cat(<<Lit("never"), Plus("space"), Lit("smoked")>>),
                   Cat(<<Lit("former"), Plus("space"), Lit("smoker")>>)>>)) >>

medical_words ==
    {"cancer", "tumor", "tumour", "malignant", "metastatic", "stage", "grade",
     "biopsy", "pathology", "oncology", "chemotherapy", "radiation", "surgery",
     "male", "female", "years", "old", "adult", "pediatric", "child"}

\* The bundle every path starts from.
EmptyResult ==
    [all_entities |-> <<>>, conditions |-> <<>>, demographics |-> <<>>,
     treatments |-> <<>>, lab_values |-> <<>>]

\* the words of the text that are in the fixed vocabulary
MedicalWordsOf(text) == SelectSeq(StrSplit(text), LAMBDA w : w \in medical_words)

\* RulesResult with the regex matches never added to all_matches
RulesResult_WordsOnly(conds, demos, treats, words, ord) ==
    [all_entities |-> ListOfSet(words, ord),
     conditions |-> ListOfSet(conds, ord),
     demographics |-> ListOfSet(demos, ord),
     treatments |-> ListOfSet(treats, ord),
     lab_values |-> <<>>]

\* the result of _extract_with_rules from the matches of the three batteries
\* and the vocabulary words; ord is the order list(set(...)) happens to give
RulesResult(conds, demos, treats, words, ord) ==
    [all_entities |-> ListOfSet(conds \o demos \o treats \o words, ord),
     conditions |-> ListOfSet(conds, ord),
     demographics |-> ListOfSet(demos, ord),
     treatments |-> ListOfSet(treats, ord),
     lab_values |-> <<>>]

\* the batteries run on the lower-cased text: re.IGNORECASE followed by
\* match.lower(), and text.lower().split()
RulesOnLower(text, ord) ==
    RulesResult(FindAllOf(condition_patterns, 1, text), FindAllOf(demo_patterns, 1, text),
                FindAllOf(treatment_patterns, 1, text), MedicalWordsOf(text), ord)

\* _extract_with_rules(text)
ExtractWithRules(text, ord) == RulesOnLower(StrLower(text), ord)

\* one span of the NER answer added to the result
AddEntity(result, entity_text, entity_type) ==
    [result EXCEPT
        !.all_entities = Append(@, entity_text),
        !.conditions = IF entity_type \in {"DISEASE", "SYMPTOM"}
                       THEN Append(@, entity_text) ELSE @,
        !.demographics = IF entity_type \in {"AGE", "SEX", "GENDER"}
                         THEN Append(@, entity_text) ELSE @,
        !.treatments = IF entity_type \in {"DRUG", "TREATMENT"}
                       THEN Append(@, entity_text) ELSE @,
        !.lab_values = IF entity_type \in {"LAB_VALUE", "BIOMARKER"}
                       THEN Append(@, entity_text) ELSE @]

RECURSIVE Categorize(_, _, _)
\* the loop of _extract_with_ner over the spans entities[k..]
Categorize(entities, k, result) ==
    IF k > Len(entities) THEN result
    ELSE Categorize(entities, k + 1,
                    AddEntity(result, StrLower(entities[k].word), entities[k].entity_group))

\* What the NER pipeline, an external collaborator, answers to one call: it
\* raises, or it returns a list of spans.
NerRaises == <<"raise">>

\* ExtractWithNer without its try/except: the pipeline's exception leaves the call
ExtractWithNer_NoTry(text, ner, ord) ==
    IF ner = NerRaises
    THEN [path |-> "ner", raised |-> TRUE, bundle |-> EmptyResult]
    ELSE [path |-> "ner", raised |-> FALSE, bundle |-> Categorize(ner, 1, EmptyResult)]

\* _extract_with_ner(text): ner is the pipeline's answer for this call.  The
\* result names the extractor that produced the bundle (path) and whether an
\* exception left the call (raised).
ExtractWithNer(text, ner, ord) ==
    IF ner = NerRaises
    THEN [path |-> "rules", raised |-> FALSE, bundle |-> ExtractWithRules(text, ord)]
    ELSE [path |-> "ner", raised |-> FALSE, bundle |-> Categorize(ner, 1, EmptyResult)]

\* ExtractEntities with the model_available test left out: the pipeline is
\* always asked
ExtractEntities_NoFlag(available, text, ner, ord) ==
    IF StrStrip(text) = ""
    THEN [path |-> "blank", raised |-> FALSE,
          bundle |-> [all_entities |-> <<>>, conditions |-> <<>>,
                      demographics |-> <<>>, treatments |-> <<>>]]
    ELSE ExtractWithNer(StrStrip(StrLower(text)), ner, ord)

\* extract_entities(text) of an extractor whose flag is available
ExtractEntities(available, text, ner, ord) ==
    IF StrStrip(text) = ""
    THEN [path |-> "blank", raised |-> FALSE,
          bundle |-> [all_entities |-> <<>>, conditions |-> <<>>,
                      demographics |-> <<>>, treatments |-> <<>>]]
    ELSE IF available
    THEN ExtractWithNer(StrStrip(StrLower(text)), ner, ord)
    ELSE [path |-> "rules", raised |-> FALSE,
          bundle |-> ExtractWithRules(StrStrip(StrLower(text)), ord)]

\* __init__: the flag records whether loading the pipeline succeeded.
Construct(load_raises) == ~load_raises

(***************************************************************************)
(* The extractor as a state machine: one extractor, constructed once, then  *)
(* called on patient texts.                                                 *)
(***************************************************************************)
VARIABLES
    model_available,   \* self.model_available
    last_call,         \* the latest extract_entities call and what it returned
    kept_call          \* some earlier call, kept for comparison

extractor_vars == <<model_available, last_call, kept_call>>

\* the patient texts the calls draw from
Texts == <<
    "",
    " \t ",
    "Breast Cancer",
    "female, 45 years old, breast cancer, HER2 positive, non-smoker",
    "male 70yo, stage IV lung cancer, no prior chemo",
    "breast_cancer stage ivb leukemias",
    "older adult with melanoma; cancer recurrent",
    "healthy volunteer",
    "child, 0 years old, leukemia",
    "10 years old child with sarcoma" >>

\* the answers of the NER pipeline the calls draw from
NerAnswers == <<
    NerRaises,
    <<>>,
    <<[word |-> "Breast Cancer", entity_group |-> "DISEASE"],
      [word |-> "female", entity_group |-> "SEX"]>>,
    <<[word |-> "breast", entity_group |-> "LABEL_0"],
      [word |-> "breast", entity_group |-> "LABEL_0"]>> >>

Orders == {"fwd", "rev"}

\* extract_entities on every input of the model, evaluated once
Extraction ==
    [a \in BOOLEAN, t \in 1..Len(Texts), n \in 1..Len(NerAnswers), o \in Orders |->
        ExtractEntities(a, Texts[t], NerAnswers[n], o)]

NoCall == [made |-> FALSE]

ExtractorInit ==
    /\ model_available \in {Construct(load_raises) : load_raises \in BOOLEAN}
    /\ last_call = NoCall
    /\ kept_call = NoCall

\* extractor.extract_entities(Texts[t]); the caller may keep the previous call
\* to compare with later ones
CallExtract(t, n, o, keep) ==
    /\ last_call' = [made |-> TRUE, text |-> t, ner |-> n,
                     result |-> Extraction[model_available, t, n, o]]
    /\ kept_call' = IF keep THEN last_call ELSE kept_call
    /\ UNCHANGED model_available

(***************************************************************************)
(* Properties of the extractor                                              *)
(***************************************************************************)
Categories == {"all_entities", "conditions", "demographics", "treatments", "lab_values"}

\* a bundle's categories as sets
BundleSets(b) == [k \in DOMAIN b |-> ToSet(b[k])]

TextOf(c) == Texts[c.text]

IsBlankCall(c) == c.made /\ StrStrip(TextOf(c)) = ""

\* the pipeline raised in call c, or would have, had it been asked
NerRaisedIn(c) == NerAnswers[c.ner] = NerRaises

\* call c, on a text that is not blank, was left to the rule-based extractor:
\* the model was not loaded, or the pipeline raised
LeftToRules(c) == c.made /\ ~IsBlankCall(c) /\ (~model_available \/ NerRaisedIn(c))

\* w occurs in s between two word boundaries
ContainsWholeWord(s, w) ==
    \E i \in 1..(Len(s) - Len(w) + 1) :
        /\ SubSeq(s, i, i + Len(w) - 1) = w
        /\ WordBoundary(s, i)
        /\ WordBoundary(s, i + Len(w))

\* every cancer-type token that is a whole word of call c's text is among the
\* conditions and among all_entities of the bundle c returned
CancerTokensFound(c) ==
    \A k \in DOMAIN CancerTypeTokens :
        ContainsWholeWord(StrLower(TextOf(c)), CancerTypeTokens[k]) =>
            /\ SeqContains(c.result.bundle.conditions, CancerTypeTokens[k])
            /\ SeqContains(c.result.bundle.all_entities, CancerTypeTokens[k])

\* C7 (as claimed): extract_entities on empty or whitespace-only text returns a
\* bundle that has all five categories, each of them empty, and raises nothing.
C7_BlankTextAllCategoriesEmpty ==
    IsBlankCall(last_call) =>
        /\ ~last_call.result.raised
        /\ DOMAIN last_call.result.bundle = Categories
        /\ \A k \in DOMAIN last_call.result.bundle : last_call.result.bundle[k] = <<>>

\* C8 (as claimed): whatever extractor produced the bundle, every cancer-type
\* token that is a whole word of the text is in conditions and in all_entities.
C8_CancerTokensAlwaysFound == last_call.made => CancerTokensFound(last_call)

\* C8 (amended): when the call is left to the rule-based extractor, every
\* cancer-type token that is a whole word of the text is, lower-cased, in
\* conditions and in all_entities.
C8_CancerTokensFoundByRules == LeftToRules(last_call) => CancerTokensFound(last_call)

\* a rule-based call on "Breast Cancer" that returned breast among the conditions
C8_Witness ==
    /\ LeftToRules(last_call)
    /\ TextOf(last_call) = "Breast Cancer"
    /\ ContainsWholeWord(StrLower(TextOf(last_call)), "breast")
    /\ SeqContains(last_call.result.bundle.conditions, "breast")

SameText == last_call.made /\ kept_call.made /\ last_call.text = kept_call.text

SameBundleSets == BundleSets(last_call.result.bundle) = BundleSets(kept_call.result.bundle)

SameNerOutcome ==
    \/ IsBlankCall(last_call)
    \/ ~model_available
    \/ last_call.ner = kept_call.ner

C10_NeverRaisesFallsBack ==
    last_call.made =>
        /\ ~last_call.result.raised
        /\ (~model_available /\ ~IsBlankCall(last_call) => last_call.result.path = "rules")
        /\ (LeftToRules(last_call) =>
                /\ last_call.result.path = "rules"
                /\ DOMAIN last_call.result.bundle = Categories)

\* the model is loaded, the pipeline raised, and the call returned entities
C10_Witness ==
    /\ last_call.made
    /\ model_available
    /\ NerRaisedIn(last_call)
    /\ last_call.result.path = "rules"
    /\ ~last_call.result.raised
    /\ last_call.result.bundle.all_entities # <<>>

(***************************************************************************)
(* difflib.SequenceMatcher(None, a, b).ratio(), for strings shorter than    *)
(* the 200 characters at which autojunk sets in                             *)
(***************************************************************************)
RECURSIVE CommonLen(_, _, _, _, _, _)
\* the length of the longest common run a[i..] = b[j..] inside a[..ahi], b[..bhi]
CommonLen(a, b, i, j, ahi, bhi) ==
    IF i <= ahi /\ j <= bhi /\ SubSeq(a, i, i) = SubSeq(b, j, j)
    THEN 1 + CommonLen(a, b, i + 1, j + 1, ahi, bhi)
    ELSE 0

\* the blocks <<i, j, size>> of the window a[alo..ahi], b[blo..bhi]
Blocks(a, b, alo, ahi, blo, bhi) ==
    {<<i, j, CommonLen(a, b, i, j, ahi, bhi)>> : i \in alo..ahi, j \in blo..bhi}

\* find_longest_match: of the longest blocks the one that starts earliest in
\* a, and of those the one that starts earliest in b; size 0 when nothing
\* matches
LongestOf(blocks) ==
    IF blocks = {} THEN <<0, 0, 0>>
    ELSE CHOOSE x \in blocks : \A y \in blocks :
           \/ x[3] > y[3]
           \/ x[3] = y[3] /\ x[1] < y[1]
           \/ x[3] = y[3] /\ x[1] = y[1] /\ x[2] <= y[2]

RECURSIVE MatchedChars(_, _, _, _, _, _)
RECURSIVE MatchedAround(_, _, _, _, _, _, _)
\* get_matching_blocks, summed: the longest block of the window, then the
\* windows to its left and to its right
MatchedChars(a, b, alo, ahi, blo, bhi) ==
    IF alo > ahi \/ blo > bhi THEN 0
    ELSE MatchedAround(a, b, alo, ahi, blo, bhi, LongestOf(Blocks(a, b, alo, ahi, blo, bhi)))

MatchedAround(a, b, alo, ahi, blo, bhi, m) ==
    IF m[3] = 0 THEN 0
    ELSE m[3] + MatchedChars(a, b, alo, m[1] - 1, blo, m[2] - 1)
              + MatchedChars(a, b, m[1] + m[3], ahi, m[2] + m[3], bhi)

\* ratio() >= threshold, the threshold in tenths: 2.0 * M / T >= threshold,
\* and 1.0 for two empty strings
FuzzyAtLeast(matched, total, threshold) ==
    IF total = 0 THEN TRUE ELSE 20 * matched >= threshold * total

\* _fuzzy_match(text1, text2, threshold)
_fuzzy_match(text1, text2, threshold) ==
    FuzzyAtLeast(MatchedChars(text1, text2, 1, Len(text1), 1, Len(text2)),
                 Len(text1) + Len(text2), threshold)

(***************************************************************************)
(* utils/matcher.py: the field sub-scores, in tenths                        *)
(***************************************************************************)
Min(x, y) == IF x <= y THEN x ELSE y

RECURSIVE SumSeq(_)
SumSeq(q) == IF q = <<>> THEN 0 ELSE q[1] + SumSeq(Tail(q))

\* entities_dict.get(key, []) and the truth value of entities_dict.get(key):
\* a missing key reads as the empty list
DictGet(d, key) == IF key \in DOMAIN d THEN d[key] ELSE <<>>

\* None, where a dict is expected
PyNone == [none |-> TRUE]

\* one condition entity against the Conditions field
ConditionScore(condition, field_value) ==
    IF StrContains(field_value, condition) THEN 20
    ELSE IF _fuzzy_match(condition, field_value, 8) THEN 15
    ELSE 0

\* one entity of all_entities against the Conditions field
BackgroundScore(entity, field_value, condition_entities) ==
    IF StrContains(field_value, entity) /\ ~SeqContains(condition_entities, entity)
    THEN 5 ELSE 0

\* _match_conditions without its cap of 5.0
_match_conditions_NoCap(field_value, condition_entities, all_entities) ==
    SumSeq([k \in DOMAIN condition_entities |->
               ConditionScore(condition_entities[k], field_value)])
    + SumSeq([k \in DOMAIN all_entities |->
               BackgroundScore(all_entities[k], field_value, condition_entities)])

_match_conditions(field_value, condition_entities, all_entities) ==
    Min(SumSeq([k \in DOMAIN condition_entities |->
                   ConditionScore(condition_entities[k], field_value)])
        + SumSeq([k \in DOMAIN all_entities |->
                   BackgroundScore(all_entities[k], field_value, condition_entities)]),
        50)

sex_terms == <<"male", "female", "m", "f", "men", "women">>

\* any(sex in demo_entities for sex in ['male', 'female', 'm', 'f'])
AnySexEntity(demo_entities) ==
    \E sex \in {"male", "female", "m", "f"} : SeqContains(demo_entities, sex)

SexTermScore(sex_term, field_value, demo_entities) ==
    IF StrContains(field_value, sex_term) /\ SeqContains(demo_entities, sex_term) THEN 20
    ELSE IF StrContains(field_value, sex_term) /\ AnySexEntity(demo_entities) THEN 15
    ELSE 0

_match_sex(field_value, demo_entities, all_entities) ==
    Min(SumSeq([k \in DOMAIN sex_terms |->
                   SexTermScore(sex_terms[k], field_value, demo_entities)]),
        30)

HasDigit(s) == \E i \in 1..Len(s) : IsDigit(CharAt(s, i))

FirstDigitAt(s) == CHOOSE i \in 1..Len(s) :
    IsDigit(CharAt(s, i)) /\ \A j \in 1..(i - 1) : ~IsDigit(CharAt(s, j))

DigitValue(c) == (CHOOSE k \in 1..Len(DigitChars) : SubSeq(DigitChars, k, k) = c) - 1

RECURSIVE IntOfDigits(_, _, _)
\* int() of the digits s[i..i+n-1]
IntOfDigits(s, i, n) ==
    IF n = 0 THEN 0
    ELSE 10 * IntOfDigits(s, i, n - 1) + DigitValue(CharAt(s, i + n - 1))

\* int(re.search(r'(\d+)', entity).group(1)), for an entity that has a digit
FirstInt(entity) ==
    IntOfDigits(entity, FirstDigitAt(entity), RunLen(entity, FirstDigitAt(entity), "digit"))

\* None, for patient_age
NoAge == -1

\* the first demographic entity that has a digit
FirstWithDigit(demo_entities) ==
    CHOOSE k \in DOMAIN demo_entities :
        HasDigit(demo_entities[k]) /\ \A j \in 1..(k - 1) : ~HasDigit(demo_entities[j])

\* patient_age: the number in the first demographic entity that has one
PatientAge(demo_entities) ==
    IF \E k \in DOMAIN demo_entities : HasDigit(demo_entities[k])
    THEN FirstInt(demo_entities[FirstWithDigit(demo_entities)])
    ELSE NoAge

age_terms == <<"adult", "older_adult", "pediatric", "child">>

AgeTermScore(age_term, field_value, patient_age) ==
    IF ~StrContains(field_value, age_term) THEN 0
    ELSE IF age_term = "adult" /\ 18 <= patient_age /\ patient_age <= 64 THEN 20
    ELSE IF age_term = "older_adult" /\ patient_age >= 65 THEN 20
    ELSE IF age_term \in {"pediatric", "child"} /\ patient_age < 18 THEN 20
    ELSE 0

\* the score for a patient_age that passed the test `if patient_age:`
AgeScore(field_value, patient_age) ==
    IF patient_age = NoAge \/ patient_age = 0 THEN 0
    ELSE SumSeq([k \in DOMAIN age_terms |->
                    AgeTermScore(age_terms[k], field_value, patient_age)])

_match_age(field_value, demo_entities, all_entities) ==
    Min(AgeScore(field_value, PatientAge(demo_entities)), 30)

phase_terms == <<"phase1", "phase2", "phase3", "phase4", "phase i", "phase ii", "phase iii">>

PhaseTermScore(phase_term, field_value, all_entities) ==
    IF StrContains(field_value, phase_term) /\ SeqContains(all_entities, phase_term)
    THEN 15 ELSE 0

_match_phases(field_value, all_entities) ==
    Min(SumSeq([k \in DOMAIN phase_terms |->
                   PhaseTermScore(phase_terms[k], field_value, all_entities)]),
        20)

GeneralScore(entity, field_value) ==
    IF StrContains(field_value, entity) THEN 10
    ELSE IF _fuzzy_match(entity, field_value, 7) THEN 5
    ELSE 0

_match_general(field_value, entities) ==
    Min(SumSeq([k \in DOMAIN entities |-> GeneralScore(entities[k], field_value)]), 30)

(***************************************************************************)
(* utils/matcher.py: match_patient_to_trials                                *)
(***************************************************************************)
\* field_weights, in tenths, in the order of the dict
field_weights == <<
    [field |-> "Conditions", weight |-> 30],
    [field |-> "Sex", weight |-> 20],
    [field |-> "Age", weight |-> 20],
    [field |-> "Phases", weight |-> 15],
    [field |-> "Study Status", weight |-> 10],
    [field |-> "Study Type", weight |-> 5],
    [field |-> "Locations", weight |-> 3] >>

WeightedFields == {field_weights[k].field : k \in DOMAIN field_weights}

\* the branch of calculate_confidence_score for one field; field_value is
\* str(row[field]).lower()
FieldScore(field, field_value, entities_dict) ==
    CASE field = "Conditions" ->
           _match_conditions(field_value, DictGet(entities_dict, "conditions"),
                             DictGet(entities_dict, "all_entities"))
      [] field = "Sex" ->
           _match_sex(field_value, DictGet(entities_dict, "demographics"),
                      DictGet(entities_dict, "all_entities"))
      [] field = "Age" ->
           _match_age(field_value, DictGet(entities_dict, "demographics"),
                      DictGet(entities_dict, "all_entities"))
      [] field = "Phases" ->
           _match_phases(field_value, DictGet(entities_dict, "all_entities"))
      [] OTHER -> _match_general(field_value, DictGet(entities_dict, "all_entities"))

\* total_score, in hundredths, of the field scores that were computed
TotalOf(field_scores) ==
    SumSeq([k \in DOMAIN field_weights |->
               IF field_weights[k].field \in DOMAIN field_scores
               THEN field_scores[field_weights[k].field] * field_weights[k].weight
               ELSE 0])

ScoreAndDetails(field_scores) ==
    [total_score |-> TotalOf(field_scores), field_scores |-> field_scores]

\* calculate_confidence_score(row): a field that is not a column of the row
\* is skipped
calculate_confidence_score(cells, entities_dict) ==
    ScoreAndDetails(DictOf([f \in WeightedFields \cap DOMAIN cells |->
                               FieldScore(f, StrLower(cells[f]), entities_dict)]))

\* the guard without its test of all_entities
NoEntities_DictOnly(entities_dict) ==
    \/ entities_dict = PyNone
    \/ DOMAIN entities_dict = {}

\* not entities_dict or not entities_dict.get("all_entities")
NoEntities(entities_dict) ==
    \/ entities_dict = PyNone
    \/ DOMAIN entities_dict = {}
    \/ DictGet(entities_dict, "all_entities") = <<>>

\* pd.DataFrame()
EmptyFrame == [columns |-> {}, rows |-> <<>>]

\* df with column name set to values, row by row
WithColumn(df, name, values) ==
    [columns |-> df.columns \cup {name},
     rows |-> ListOf([i \in DOMAIN df.rows |->
                         [df.rows[i] EXCEPT !.cells = (name :> values[i]) @@ @]])]

\* the table not copied: the function works on the caller's table
DfCopy_Alias(df) == [caller |-> df, local |-> df, aliased |-> TRUE]

\* trials_df.copy(): the function's own table (local), beside the caller's,
\* which later assignments do not reach
DfCopy(df) == [caller |-> df, local |-> df, aliased |-> FALSE]

\* trials_df[name] = values, on the function's table
SetColumn(h, name, values) ==
    [h EXCEPT !.local = WithColumn(h.local, name, values),
              !.caller = IF h.aliased THEN WithColumn(h.local, name, values) ELSE @]

\* trials_df[trials_df['confidence_score'] > 0]
FilterPositive(df) ==
    [df EXCEPT !.rows = SelectSeq(df.rows, LAMBDA r : r.cells.confidence_score > 0)]

ScoreAt(rows, i) == rows[i].cells.confidence_score

\* the place of row i in the descending order that keeps equal scores in
\* their original order
StableRank(rows, i) ==
    1 + Cardinality({j \in DOMAIN rows :
                        \/ ScoreAt(rows, j) > ScoreAt(rows, i)
                        \/ ScoreAt(rows, j) = ScoreAt(rows, i) /\ j < i})

StableSortDesc(rows) ==
    ListOf([k \in DOMAIN rows |-> rows[CHOOSE i \in DOMAIN rows : StableRank(rows, i) = k]])

\* the places of a sorted list where a row and the next have equal scores
TiePlaces(rows) == {k \in 1..(Len(rows) - 1) : ScoreAt(rows, k) = ScoreAt(rows, k + 1)}

\* rows with the rows at k and k + 1 exchanged; k = 0 leaves them
Exchanged(rows, k) ==
    ListOf([i \in DOMAIN rows |->
               IF k > 0 /\ i = k THEN rows[k + 1]
               ELSE IF k > 0 /\ i = k + 1 THEN rows[k] ELSE rows[i]])

\* matches.sort_values(by='confidence_score', ascending=False), sorted being
\* the stable descending order.  The default kind, 'quicksort', does not
\* promise the order of rows with equal scores: tie picks it, among the
\* stable order (0) and the orders that exchange two neighbours of one score.
SortValues(sorted, tie) == Exchanged(sorted, tie)

Max(a, b) == IF a > b THEN a ELSE b

RECURSIVE MaxOf(_, _)
\* the largest score of rows[1..n]
MaxOf(rows, n) ==
    IF n = 1 THEN ScoreAt(rows, 1) ELSE Max(ScoreAt(rows, n), MaxOf(rows, n - 1))

\* the largest total a row can have, every sub-score at its cap: an absolute
\* scale in place of the batch's
MaxScore_Absolute(rows) == 3540

\* max_score, in hundredths
MaxScore(rows) == IF Len(rows) > 0 THEN MaxOf(rows, Len(rows)) ELSE 100

\* n / d rounded to the nearest integer, a half going to the even neighbour
RoundHalfEven(n, d) ==
    IF 2 * (n % d) < d THEN n \div d
    ELSE IF 2 * (n % d) > d THEN (n \div d) + 1
    ELSE IF (n \div d) % 2 = 0 THEN n \div d
    ELSE (n \div d) + 1

\* (score / max_score * 100).round(1), in tenths of a percent
Percentage(score, max_score) == RoundHalfEven(score * 1000, max_score)

Percentages(rows, max_score) ==
    ListOf([i \in DOMAIN rows |-> Percentage(ScoreAt(rows, i), max_score)])

\* matches['confidence_percentage'] = ...
WithPercentage(df) ==
    WithColumn(df, "confidence_percentage", Percentages(df.rows, MaxScore(df.rows)))

HeadLimit == 20

\* the result not cut: every row is kept
DfHead_All(df, n) == df

\* matches.head(n)
DfHead(df, n) == [df EXCEPT !.rows = SubSeq(df.rows, 1, Min(n, Len(df.rows)))]

(***************************************************************************)
(* The matcher as a state machine: a loaded trial table, and one query at a *)
(* time run against it.                                                     *)
(***************************************************************************)
VARIABLES
    trials_df,    \* the caller's trial table
    last_match    \* the latest match_patient_to_trials call and what it returned

matcher_vars == <<trials_df, last_match>>

\* the state of the whole program
\* the state of the eligibility parser (utils/eligibility_parser.py)
VARIABLES
    last_parse,     \* the last call of parse_eligibility_text and what it returned
    structured,     \* the last call of structure_eligibility_criteria and its dict
    last_eval       \* the last call of match_patient_to_criteria and its results

eligibility_vars == <<last_parse, structured, last_eval>>

\* the state of the geographic matcher (utils/geographic_matcher.py)
VARIABLES
    deferred_annotations,   \* whether the interpreter defers annotations (PEP 649)
    last_filter,            \* the last call of filter_trials_by_location and its outcome
    last_distance,          \* the last call of calculate_distance and what it returned
    last_location,          \* the last call of parse_location_string and what it returned
    last_suggest            \* the last call of suggest_alternative_locations and its outcome

geo_vars == <<deferred_annotations, last_filter, last_distance, last_location, last_suggest>>

\* the state of the CSV cleaner (clean_trials.py)
VARIABLES
    raw_file,      \* the rows csv.reader reads from RAW_FILE
    clean_file,    \* the rows written to CLEAN_FILE, if it was written
    last_clean     \* the last run of clean_csv and what it reported

cleaner_vars == <<raw_file, clean_file, last_clean>>

vars == <<model_available, last_call, kept_call, trials_df, last_match,
         last_parse, structured, last_eval, deferred_annotations, last_filter,
         last_distance, last_location, last_suggest, raw_file, clean_file, last_clean>>

\* the largest trial table
MaxRows == 26

\* str(float('nan')): an empty cell
NaN == "nan"

\* the trial records the tables are made of
TrialPool == <<
    [NCT |-> "NCT1", Conditions |-> "HER2 Positive Breast Cancer", Sex |-> "FEMALE",
     Age |-> "ADULT, OLDER_ADULT", Phases |-> "PHASE1|PHASE2",
     Status |-> "RECRUITING", Type |-> "INTERVENTIONAL", Locations |-> "NYU, New York, NY"],
    [NCT |-> "NCT2", Conditions |-> "Lung Cancer", Sex |-> "MALE",
     Age |-> "OLDER_ADULT", Phases |-> "PHASE3",
     Status |-> "COMPLETED", Type |-> "OBSERVATIONAL", Locations |-> "Boston, MA"],
    [NCT |-> "NCT3", Conditions |-> "Healthy", Sex |-> "ALL",
     Age |-> "CHILD", Phases |-> NaN,
     Status |-> "RECRUITING", Type |-> "OBSERVATIONAL", Locations |-> NaN],
    [NCT |-> "NCT4", Conditions |-> "Breast Cancer", Sex |-> "ALL",
     Age |-> "ADULT", Phases |-> "PHASE2",
     Status |-> "RECRUITING", Type |-> "INTERVENTIONAL", Locations |-> "Boston, MA"],
    [NCT |-> "NCT5", Conditions |-> "Melanoma", Sex |-> "ALL",
     Age |-> "CHILD, ADULT", Phases |-> NaN,
     Status |-> "COMPLETED", Type |-> "INTERVENTIONAL", Locations |-> NaN] >>

\* a pool record as the cells of a row
CellsOf(t) ==
    [c \in {"NCT Number", "Conditions", "Sex", "Age", "Phases", "Study Status",
            "Study Type", "Locations"} |->
        CASE c = "NCT Number" -> t.NCT
          [] c = "Conditions" -> t.Conditions
          [] c = "Sex" -> t.Sex
          [] c = "Age" -> t.Age
          [] c = "Phases" -> t.Phases
          [] c = "Study Status" -> t.Status
          [] c = "Study Type" -> t.Type
          [] c = "Locations" -> t.Locations]

\* the columns a table may have: all of them, or some of the weighted ones missing
ColumnSets == <<
    {"NCT Number", "Conditions", "Sex", "Age", "Phases", "Study Status", "Study Type",
     "Locations"},
    {"NCT Number", "Conditions", "Sex", "Study Status"} >>

Restrict(f, S) == DictOf([x \in S |-> f[x]])

\* the table of n rows that runs through the pool from start in steps of step
MakeTable(n, start, step, cs) ==
    [columns |-> ColumnSets[cs],
     rows |-> ListOf([i \in 1..n |->
                        [index |-> i - 1,
                         cells |-> Restrict(CellsOf(TrialPool[((start + (i - 1) * step)
                                                                 % Len(TrialPool)) + 1]),
                                            ColumnSets[cs])]])]

Tables ==
    {MakeTable(n, start, step, cs) :
        n \in 0..MaxRows, start \in 0..(Len(TrialPool) - 1), step \in 0..1,
        cs \in DOMAIN ColumnSets}

\* the entity bundles the queries draw from: None, the empty dict, and bundles
\* the extractor returns
MatcherBundles == <<
    PyNone,
    <<>>,
    Extraction[FALSE, 1, 1, "fwd"].bundle,
    Extraction[TRUE, 3, 2, "fwd"].bundle,
    Extraction[FALSE, 4, 1, "fwd"].bundle,
    Extraction[FALSE, 5, 1, "rev"].bundle,
    Extraction[TRUE, 3, 3, "fwd"].bundle,
    Extraction[TRUE, 3, 4, "fwd"].bundle,
    Extraction[FALSE, 9, 1, "fwd"].bundle,
    Extraction[FALSE, 10, 1, "rev"].bundle >>

\* calculate_confidence_score on every bundle and row of the model, evaluated
\* once
ScoreMemo ==
    DictOf([b \in {k \in DOMAIN MatcherBundles : ~NoEntities(MatcherBundles[k])},
            t \in DOMAIN TrialPool, cs \in DOMAIN ColumnSets |->
               calculate_confidence_score(Restrict(CellsOf(TrialPool[t]), ColumnSets[cs]),
                                          MatcherBundles[b])])

\* calculate_confidence_score(row) for the bundle MatcherBundles[b]
ScoreRow(b, df, cells) ==
    ScoreMemo[b,
              CHOOSE t \in DOMAIN TrialPool : TrialPool[t].NCT = cells["NCT Number"],
              CHOOSE cs \in DOMAIN ColumnSets : ColumnSets[cs] = df.columns]

\* trials_df.apply(calculate_confidence_score, axis=1)
ApplyScores(b, df) ==
    ListOf([i \in DOMAIN df.rows |-> ScoreRow(b, df, df.rows[i].cells)])

\* the two column assignments of lines 164-165
Annotate(h, scores_and_details) ==
    SetColumn(SetColumn(h, "confidence_score",
                        [i \in DOMAIN scores_and_details |-> scores_and_details[i].total_score]),
              "field_scores",
              [i \in DOMAIN scores_and_details |-> scores_and_details[i].field_scores])

\* Lines 160-165: the table is copied, scored and annotated.
MatchPrepare(df, scores_and_details) ==
    [h |-> Annotate(DfCopy(df), scores_and_details),
     scores_and_details |-> scores_and_details]

\* Lines 168-175 for one outcome of the sort: what the call returns, what it
\* leaves in the caller's table, and the scores it computed.
MatchFinish(pre, sorted, tie) ==
    [ret |-> DfHead(WithPercentage([pre.h.local EXCEPT !.rows = SortValues(sorted, tie)]),
                    HeadLimit),
     caller_df |-> pre.h.caller,
     scores_and_details |-> pre.scores_and_details]

\* Lines 17-18: the call that returns before any trial is scored.
MatchNothing(df) == [ret |-> EmptyFrame, caller_df |-> df, scores_and_details |-> <<>>]

NoMatch == [made |-> FALSE]

MatcherInit ==
    /\ trials_df \in Tables
    /\ last_match = NoMatch

\* the call has returned out: entities names the bundle it was given, and the
\* caller's table is what the call left of it
Returned(b, out) ==
    /\ last_match' = [made |-> TRUE, entities |-> b, ret |-> out.ret,
                      scores_and_details |-> out.scores_and_details]
    /\ trials_df' = out.caller_df

\* match_patient_to_trials(MatcherBundles[b], trials_df), for a new query; the
\* sort gives one of the orders it may give
MatchPatientToTrials(b) ==
    /\ ~last_match.made
    /\ IF NoEntities(MatcherBundles[b])
       THEN Returned(b, MatchNothing(trials_df))
       ELSE \E pre \in {MatchPrepare(trials_df, ApplyScores(b, trials_df))} :
            \E sorted \in {StableSortDesc(FilterPositive(pre.h.local).rows)} :
            \E tie \in {0} \cup TiePlaces(sorted) :
                Returned(b, MatchFinish(pre, sorted, tie))

\* the results of the query are dropped; the next query starts afresh
NewQuery ==
    /\ last_match.made
    /\ last_match' = NoMatch
    /\ UNCHANGED trials_df

(***************************************************************************)
(* Properties of the matcher                                                *)
(***************************************************************************)
\* the rows the latest call returned
ReturnedRows == last_match.ret.rows

\* the bundle the latest call was given
BundleOf(m) == MatcherBundles[m.entities]

\* the raw scores the latest call computed, one per row of the table
ComputedScores == [i \in DOMAIN last_match.scores_and_details |->
                      last_match.scores_and_details[i].total_score]

\* C1: for every entity bundle and every trial table, match_patient_to_trials
\* returns at most 20 rows, and every returned row has a confidence_score
\* strictly greater than 0.
C1_AtMost20RowsAllPositive ==
    last_match.made =>
        /\ Len(ReturnedRows) <= 20
        /\ \A i \in DOMAIN ReturnedRows : ReturnedRows[i].cells.confidence_score > 0

\* C1 happens: 20 rows came back of a table in which more than 20 rows scored
\* above 0 and some row scored 0
C1_Witness ==
    /\ last_match.made
    /\ Len(ReturnedRows) = 20
    /\ Cardinality({i \in DOMAIN ComputedScores : ComputedScores[i] > 0}) > 20
    /\ \E i \in DOMAIN ComputedScores : ComputedScores[i] = 0

\* the largest raw score of the batch, the rows of the table that scored above 0
BatchMax ==
    CHOOSE m \in {ComputedScores[i] : i \in DOMAIN ComputedScores} :
        \A j \in DOMAIN ComputedScores : ComputedScores[j] <= m

\* C2: in every non-empty result, every row's confidence_percentage lies in
\* [0, 100] and is score / (max score of the batch) * 100 rounded to one
\* decimal, and the row with the highest confidence_score has exactly 100.0.
\* Percentages are in tenths of a percent: p is the rounding of 1000 * s / m
\* when it is an integer no further than a half from it.
C2_PercentageOfBatchMax ==
    last_match.made /\ Len(ReturnedRows) > 0 =>
        \A i \in DOMAIN ReturnedRows :
            /\ ReturnedRows[i].cells.confidence_percentage \in 0..1000
            /\ 2 * (ReturnedRows[i].cells.confidence_percentage * BatchMax
                    - ReturnedRows[i].cells.confidence_score * 1000) <= BatchMax
            /\ 2 * (ReturnedRows[i].cells.confidence_score * 1000
                    - ReturnedRows[i].cells.confidence_percentage * BatchMax) <= BatchMax
            /\ (ReturnedRows[i].cells.confidence_score = BatchMax
                    => ReturnedRows[i].cells.confidence_percentage = 1000)

\* C2 happens: a result whose rows have different scores, one of them a
\* percentage that had to be rounded
C2_Witness ==
    /\ last_match.made
    /\ Len(ReturnedRows) > 1
    /\ \E i \in DOMAIN ReturnedRows :
          /\ ReturnedRows[i].cells.confidence_score < BatchMax
          /\ (ReturnedRows[i].cells.confidence_score * 1000) % BatchMax # 0

\* the bundle is None or empty, or its all_entities category is missing or empty
EmptyBundle(entities_dict) ==
    \/ entities_dict = [none |-> TRUE]
    \/ DOMAIN entities_dict = {}
    \/ "all_entities" \notin DOMAIN entities_dict
    \/ /\ "all_entities" \in DOMAIN entities_dict
       /\ entities_dict["all_entities"] = <<>>

\* C3: when the entity bundle is empty or None, or its all_entities category
\* is empty, match_patient_to_trials returns the empty result for any trial
\* table, and no trial is scored.
C3_EmptyBundleEmptyResult ==
    last_match.made /\ EmptyBundle(BundleOf(last_match)) =>
        /\ last_match.ret = [columns |-> {}, rows |-> <<>>]
        /\ last_match.scores_and_details = <<>>

\* C3 happens: a bundle that has categories, all_entities among them and
\* empty, was matched against a table that has trials
C3_Witness ==
    /\ last_match.made
    /\ "all_entities" \in DOMAIN BundleOf(last_match)
    /\ BundleOf(last_match)["all_entities"] = <<>>
    /\ Len(trials_df.rows) > 0
    /\ last_match.ret.rows = <<>>

\* C4: match_patient_to_trials leaves the caller's trial table unchanged:
\* no step of the matcher changes the rows, the columns or the values of
\* trials_df (the score columns are added to a copy).
C4_CallerTableUnchanged == [][trials_df' = trials_df]_vars

\* C4 happens: a call returned rows that carry the three added columns, and
\* the caller's table has trials and none of these columns
C4_Witness ==
    /\ last_match.made
    /\ Len(ReturnedRows) > 0
    /\ {"confidence_score", "field_scores", "confidence_percentage"}
           \subseteq last_match.ret.columns
    /\ Len(trials_df.rows) > Len(ReturnedRows)
    /\ trials_df.columns \cap {"confidence_score", "field_scores", "confidence_percentage"}
           = {}

\* C5: the returned rows are ordered by confidence_score descending, two
\* returned rows of equal confidence_score are in the order they have in the
\* input table, and the rows kept are the first 20 of that stable order: a
\* row of the table that scored above 0 and was not returned comes, in that
\* order, after every returned row.
C5_DescendingStableOrder ==
    last_match.made =>
        /\ \A i, j \in DOMAIN ReturnedRows :
              i < j =>
                 \/ ReturnedRows[i].cells.confidence_score
                        > ReturnedRows[j].cells.confidence_score
                 \/ /\ ReturnedRows[i].cells.confidence_score
                          = ReturnedRows[j].cells.confidence_score
                    /\ ReturnedRows[i].index < ReturnedRows[j].index
        /\ \A k \in DOMAIN ComputedScores :
              /\ ComputedScores[k] > 0
              /\ \A i \in DOMAIN ReturnedRows : ReturnedRows[i].index # k - 1
              => \A i \in DOMAIN ReturnedRows :
                    \/ ReturnedRows[i].cells.confidence_score > ComputedScores[k]
                    \/ /\ ReturnedRows[i].cells.confidence_score = ComputedScores[k]
                       /\ ReturnedRows[i].index < k - 1

\* the sub-score of a field in the field scores of a row, 0 for a field the
\* row does not have
SubScore(field_scores, field) ==
    IF field \in DOMAIN field_scores THEN field_scores[field] ELSE 0

\* the cap of a field's sub-score, in tenths
CapOf(field) ==
    IF field = "Conditions" THEN 50 ELSE IF field = "Phases" THEN 20 ELSE 30

\* C6: for every trial row, the total score is the sum over the seven
\* weighted fields (Conditions 3.0, Sex 2.0, Age 2.0, Phases 1.5, Study Status
\* 1.0, Study Type 0.5, Locations 0.3) of sub-score times weight, a field
\* absent from the row contributing 0; each sub-score is at least 0 and at
\* most its cap (Conditions 5.0, Phases 2.0, all others 3.0).  Sub-scores and
\* weights are in tenths, totals in hundredths.
C6_TotalIsWeightedSumOfCappedScores ==
    last_match.made =>
        \A i \in DOMAIN last_match.scores_and_details :
            /\ DOMAIN last_match.scores_and_details[i].field_scores
                   = trials_df.columns \cap {"Conditions", "Sex", "Age", "Phases",
                                             "Study Status", "Study Type", "Locations"}
            /\ \A f \in DOMAIN last_match.scores_and_details[i].field_scores :
                  /\ last_match.scores_and_details[i].field_scores[f] >= 0
                  /\ last_match.scores_and_details[i].field_scores[f] <= CapOf(f)
            /\ last_match.scores_and_details[i].total_score
                   = SubScore(last_match.scores_and_details[i].field_scores, "Conditions") * 30
                     + SubScore(last_match.scores_and_details[i].field_scores, "Sex") * 20
                     + SubScore(last_match.scores_and_details[i].field_scores, "Age") * 20
                     + SubScore(last_match.scores_and_details[i].field_scores, "Phases") * 15
                     + SubScore(last_match.scores_and_details[i].field_scores, "Study Status") * 10
                     + SubScore(last_match.scores_and_details[i].field_scores, "Study Type") * 5
                     + SubScore(last_match.scores_and_details[i].field_scores, "Locations") * 3

\* C6 happens: a row that has no Age column was scored, its Conditions
\* sub-score at the cap and a second field scoring
C6_Witness ==
    /\ last_match.made
    /\ \E i \in DOMAIN last_match.scores_and_details :
          /\ "Age" \notin DOMAIN last_match.scores_and_details[i].field_scores
          /\ last_match.scores_and_details[i].field_scores["Conditions"] = 50
          /\ last_match.scores_and_details[i].field_scores["Sex"] > 0
          /\ last_match.scores_and_details[i].total_score > 1500

(***************************************************************************)
(* utils/eligibility_parser.py: EligibilityParser                           *)
(*                                                                         *)
(* Four characters of the source are not ASCII; each is written here as one *)
(* ASCII character that the texts do not otherwise use, so that lengths and *)
(* positions are those of the source.                                       *)
(***************************************************************************)
GreaterEq == "}"    \* U+2265, greater-than or equal to
LessEq == "{"       \* U+2264, less-than or equal to
EnDash == "~"       \* U+2013, en dash
Bullet == "@"       \* U+2022, bullet

\* [<>≤≥=]
OpClass == Words(<<"<", ">", LessEq, GreaterEq, "=">>)

\* \d+(?:\.\d+)?
Number == Cat(<<Plus("digit"), Opt(Cat(<<Lit("."), Plus("digit")>>))>>)

\* years?
Years == Cat(<<Lit("year"), Opt(Lit("s"))>>)

RECURSIVE ReSplitFrom(_, _, _, _)
RECURSIVE ReSplitStep(_, _, _, _, _)
\* re.split(sep, s) from position i on, the current piece starting at start
ReSplitFrom(sep, s, i, start) ==
    IF i > Len(s) THEN <<SubSeq(s, start, Len(s))>>
    ELSE ReSplitStep(sep, s, i, start, Ends(sep, s, i))

\* es are the ends of sep at i: the first is the separator re finds
ReSplitStep(sep, s, i, start, es) ==
    IF es = <<>> THEN ReSplitFrom(sep, s, i + 1, start)
    ELSE <<SubSeq(s, start, i - 1)>> \o ReSplitFrom(sep, s, es[1], es[1])

\* re.split(sep, s), for a separator that matches no empty string
ReSplit(sep, s) == ReSplitFrom(sep, s, 1, 1)

\* the sentence separator without the full stop: ;\s*
SentenceSep_SemicolonOnly == Cat(<<Words(<<";">>), Star("space")>>)

\* [.;]\s*
SentenceSep == Cat(<<Words(<<".", ";">>), Star("space")>>)

\* [•\-\*]\s*
BulletSep == Cat(<<Words(<<Bullet, "-", "*">>), Star("space")>>)

\* \d+[\.\)]\s*
NumberSep == Cat(<<Plus("digit"), Words(<<".", ")">>), Star("space")>>)

RECURSIVE SplitSentences(_, _)
\* the loop of _split_into_criteria over sentences[k..]: the bullet split of
\* a sentence and then its numbered-list split are both added
SplitSentences(sentences, k) ==
    IF k > Len(sentences) THEN <<>>
    ELSE ReSplit(BulletSep, sentences[k]) \o ReSplit(NumberSep, sentences[k])
         \o SplitSentences(sentences, k + 1)

RECURSIVE StripAll(_, _)
\* [c.strip() for c in criteria if c.strip()], from criteria[k] on
StripAll(criteria, k) ==
    IF k > Len(criteria) THEN <<>>
    ELSE IF StrStrip(criteria[k]) = "" THEN StripAll(criteria, k + 1)
    ELSE <<StrStrip(criteria[k])>> \o StripAll(criteria, k + 1)

\* _split_into_criteria(text)
_split_into_criteria(text) == StripAll(SplitSentences(ReSplit(SentenceSep, text), 1), 1)

\* \s* and \s+
Ws0 == Star("space")
Ws1 == Plus("space")

\* a pattern of self.patterns: its segments in order, the segments that are
\* its capturing groups, and whether it ends with \b
Pat(category, segs, groups, wb) == [category |-> category, segs |-> segs, groups |-> groups, wb |-> wb]

\* the prefix word\s*[<>≤≥=]\s* of the comparison patterns
Compared(words) == Cat(words \o <<Ws0, OpClass, Ws0>>)

\* self.patterns, one entry for each pattern, in the order of the dict
patterns == <<
    Pat("age", <<Compared(<<Lit("age")>>), Plus("digit")>>, <<2>>, FALSE),
    Pat("age", <<Cat(<<Lit("age"), Ws1>>), Plus("digit"),
                 Cat(<<Ws0, Words(<<"-", EnDash>>), Ws0>>), Plus("digit")>>, <<2, 4>>, FALSE),
    Pat("age", <<Plus("digit"), Cat(<<Ws0, Years, Ws0, Lit("old")>>)>>, <<1>>, FALSE),
    Pat("age", <<Cat(<<Lit("between"), Ws1>>), Plus("digit"), Cat(<<Ws0, Lit("and"), Ws0>>),
                 Plus("digit"), Cat(<<Ws0, Years>>)>>, <<2, 4>>, FALSE),
    Pat("age", <<Plus("digit"), Cat(<<Ws0, Lit("to"), Ws0>>), Plus("digit"),
                 Cat(<<Ws0, Years>>)>>, <<1, 3>>, FALSE),
    Pat("weight", <<Compared(<<Lit("weight")>>), Number, Ws0,
                    Alt(<<Lit("kg"), Lit("lb"), Lit("lbs"), Cat(<<Lit("pound"), Opt(Lit("s"))>>)>>)>>,
        <<2, 4>>, FALSE),
    Pat("weight", <<Compared(<<Lit("body"), Ws0, Lit("mass"), Ws0, Lit("index")>>), Number>>,
        <<2>>, FALSE),
    Pat("weight", <<Compared(<<Lit("bmi")>>), Number>>, <<2>>, FALSE),
    Pat("gender", <<Words(<<"male", "female", "men", "women">>)>>, <<1>>, FALSE),
    Pat("gender", <<Words(<<"m", "f">>)>>, <<1>>, TRUE),
    Pat("condition", <<Words(<<"cancer", "carcinoma", "tumor", "tumour", "neoplasm",
                               "malignancy">>)>>, <<1>>, FALSE),
    Pat("condition", <<Words(<<"breast", "lung", "prostate", "colon", "pancreatic", "ovarian",
                               "brain", "liver", "kidney", "bladder", "cervical", "endometrial",
                               "thyroid">>), Cat(<<Ws1, Lit("cancer")>>)>>, <<1>>, FALSE),
    Pat("condition", <<Words(<<"leukemia", "lymphoma", "melanoma", "sarcoma">>)>>, <<1>>, FALSE),
    Pat("stage", <<Cat(<<Lit("stage"), Ws0>>), Plus("stage")>>, <<2>>, FALSE),
    Pat("stage", <<Cat(<<Lit("grade"), Ws0>>), Plus("stage")>>, <<2>>, FALSE),
    Pat("stage", <<Cat(<<Lit("t"), Words(<<"0", "1", "2", "3", "4">>), Lit("n"),
                         Words(<<"0", "1", "2", "3">>), Lit("m"), Words(<<"0", "1">>)>>)>>,
        <<>>, FALSE),
    Pat("biomarker", <<Words(<<"her2", "her-2", "egfr", "kras", "braf", "alk", "ros1", "pdl1",
                               "msi", "tmb", "brca1", "brca2">>), Ws0,
                       Words(<<"positive", "negative", "high", "low", "mutated", "wild",
                               "type">>)>>, <<1, 3>>, FALSE),
    Pat("biomarker", <<Words(<<"estrogen", "progesterone">>), Ws0,
                       Words(<<"positive", "negative">>)>>, <<1, 3>>, FALSE),
    Pat("biomarker", <<Cat(<<Lit("triple"), Ws0, Lit("negative")>>)>>, <<>>, FALSE),
    Pat("medication", <<Alt(<<Lit("chemotherapy"), Lit("chemo"), Lit("radiation"),
                              Lit("radiotherapy"), Lit("surgery"), Lit("surgical"),
                              Lit("immunotherapy"),
                              Cat(<<Lit("targeted"), Ws1, Lit("therapy")>>),
                              Cat(<<Lit("hormone"), Ws1, Lit("therapy")>>)>>)>>, <<1>>, FALSE),
    Pat("medication", <<Alt(<<Lit("prior"), Lit("previous"),
                              Cat(<<Lit("history"), Ws1, Lit("of")>>),
                              Cat(<<Lit("no"), Ws1, Lit("prior")>>)>>), Ws1,
                        Words(<<"chemotherapy", "chemo", "radiation", "surgery">>)>>,
        <<1, 3>>, FALSE),
    Pat("medication", <<Cat(<<Lit("concurrent"), Ws1>>), Words(<<"chemotherapy", "radiation">>)>>,
        <<2>>, FALSE),
    Pat("laboratory", <<Alt(<<Lit("hemoglobin"), Lit("hgb"), Lit("hct"), Lit("hematocrit"),
                              Lit("wbc"),
                              Cat(<<Lit("white"), Ws1, Lit("blood"), Ws1, Lit("cell")>>),
                              Lit("platelet"), Lit("creatinine"), Lit("alt"), Lit("ast"),
                              Lit("bilirubin")>>),
                        Cat(<<Ws0, OpClass, Ws0>>), Number>>, <<1, 3>>, FALSE),
    Pat("laboratory", <<Compared(<<Lit("ecog"), Ws0, Lit("performance"), Ws0, Lit("status")>>),
                        Words(<<"0", "1", "2">>)>>, <<2>>, FALSE),
    Pat("laboratory", <<Compared(<<Lit("karnofsky"), Ws0, Lit("performance"), Ws0,
                                   Lit("status")>>), Plus("digit")>>, <<2>>, FALSE),
    Pat("lifestyle", <<Alt(<<Lit("smoker"), Lit("non-smoker"),
                             Cat(<<Lit("never"), Ws1, Lit("smoked")>>),
                             Cat(<<Lit("former"), Ws1, Lit("smoker")>>),
                             Cat(<<Lit("current"), Ws1, Lit("smoker")>>)>>)>>, <<1>>, FALSE),
    Pat("lifestyle", <<Words(<<"pregnant", "pregnancy", "breastfeeding", "lactating">>)>>,
        <<1>>, FALSE),
    Pat("lifestyle", <<Words(<<"contraception", "contraceptive">>)>>, <<1>>, FALSE),
    Pat("comorbidity", <<Alt(<<Lit("diabetes"), Lit("hypertension"),
                               Cat(<<Lit("heart"), Ws1, Lit("disease")>>),
                               Cat(<<Lit("kidney"), Ws1, Lit("disease")>>),
                               Cat(<<Lit("liver"), Ws1, Lit("disease")>>),
                               Cat(<<Lit("lung"), Ws1, Lit("disease")>>)>>)>>, <<1>>, FALSE),
    Pat("comorbidity", <<Words(<<"hiv", "aids", "hepatitis", "tuberculosis">>)>>, <<1>>, FALSE),
    Pat("comorbidity", <<Alt(<<Lit("autoimmune"),
                               Cat(<<Lit("immune"), Ws1, Lit("deficiency")>>)>>)>>, <<1>>, FALSE)
  >>

exclusion_keywords == <<"exclusion", "exclude", "not eligible", "ineligible", "contraindication",
                        "contraindicated", "not suitable", "not appropriate", "must not",
                        "cannot", "unable to", "prohibited">>

inclusion_keywords == <<"inclusion", "include", "eligible", "suitable", "appropriate",
                        "must have", "must be", "required", "necessary", "criteria">>

RECURSIVE FirstPath(_, _, _, _, _)
RECURSIVE TryEnds(_, _, _, _, _, _, _)
RECURSIVE Chosen(_, _, _, _, _, _, _, _)
\* The first way a backtracking matcher finds to match segs[k..] from s[i]:
\* <<i>> followed by the position after each segment, or <<>> when there is
\* none.  wb: the match has to end at a word boundary.
FirstPath(segs, wb, k, s, i) ==
    IF k > Len(segs) THEN (IF wb /\ ~WordBoundary(s, i) THEN <<>> ELSE <<i>>)
    ELSE TryEnds(segs, wb, k, s, i, Ends(segs[k], s, i), 1)

\* the ends es[j..] of segs[k] tried in order
TryEnds(segs, wb, k, s, i, es, j) ==
    IF j > Len(es) THEN <<>>
    ELSE Chosen(segs, wb, k, s, i, es, j, FirstPath(segs, wb, k + 1, s, es[j]))

\* rest is the way found for segs[k+1..] after the end es[j] of segs[k]
Chosen(segs, wb, k, s, i, es, j, rest) ==
    IF rest = <<>> THEN TryEnds(segs, wb, k, s, i, es, j + 1) ELSE <<i>> \o rest

\* the match object of pattern pat on s along path p: group(0) and groups()
MatchOf(pat, s, p) ==
    [g0 |-> SubSeq(s, p[1], p[Len(p)] - 1),
     groups |-> [g \in 1..Len(pat.groups) |->
                    SubSeq(s, p[pat.groups[g]], p[pat.groups[g] + 1] - 1)]]

RECURSIVE FindIter(_, _, _)
RECURSIVE FindIterStep(_, _, _, _)
\* re.finditer(pat, s) from position i on
FindIter(pat, s, i) ==
    IF i > Len(s) THEN <<>> ELSE FindIterStep(pat, s, i, FirstPath(pat.segs, pat.wb, 1, s, i))

FindIterStep(pat, s, i, p) ==
    IF p = <<>> THEN FindIter(pat, s, i + 1)
    ELSE <<MatchOf(pat, s, p)>> \o FindIter(pat, s, p[Len(p)])

\* re.search(pat, s): whether pat matches somewhere in s
ReSearch(pat, s) == FindIter(pat, s, 1) # <<>>

\* the number of the keywords that occur in text
KeywordCount(keywords, text) == Len(SelectSeq(keywords, LAMBDA keyword : StrContains(text, keyword)))

\* negative_patterns of _determine_criterion_type; each is between two \b
negative_patterns == <<
    Pat("", <<Alt(<<Lit("no"), Lit("not"), Lit("without"), Lit("lacking"), Lit("absence"),
                    Cat(<<Lit("free"), Ws1, Lit("of")>>)>>)>>, <<1>>, TRUE),
    Pat("", <<Words(<<"cannot", "unable", "prohibited", "contraindicated">>)>>, <<1>>, TRUE)
  >>

\* re.search of a pattern that starts with \b
SearchAtBoundary(pat, s) ==
    \E i \in 1..Len(s) : WordBoundary(s, i) /\ FirstPath(pat.segs, pat.wb, 1, s, i) # <<>>

\* negative_score: the number of negative patterns found in text
NegativeScore(text) ==
    Len(SelectSeq(negative_patterns, LAMBDA pattern : SearchAtBoundary(pattern, text)))

\* _determine_criterion_type with a tie of negative and inclusion counts
\* going to exclusion
_determine_criterion_type_TieExcludes(text) ==
    IF KeywordCount(exclusion_keywords, StrLower(text)) > 0
       \/ NegativeScore(StrLower(text)) >= KeywordCount(inclusion_keywords, StrLower(text))
    THEN "exclusion" ELSE "inclusion"

\* _determine_criterion_type(text)
_determine_criterion_type(text) ==
    IF KeywordCount(exclusion_keywords, StrLower(text)) > 0
       \/ NegativeScore(StrLower(text)) > KeywordCount(inclusion_keywords, StrLower(text))
    THEN "exclusion" ELSE "inclusion"

\* medical_terms of _calculate_match_confidence
medical_terms == <<"cancer", "tumor", "malignant", "metastatic", "biomarker">>

\* _calculate_match_confidence without the boost for a long match
_calculate_match_confidence_NoLength(match) ==
    Min(5 + (IF match.g0 = match.g0 THEN 2 ELSE 0)
          + (IF KeywordCount(medical_terms, StrLower(match.g0)) > 0 THEN 1 ELSE 0), 10)

\* _calculate_match_confidence(text, pattern, match), in tenths; match.group()
\* is match.group(0)
_calculate_match_confidence(match) ==
    Min(5 + (IF match.g0 = match.g0 THEN 2 ELSE 0)
          + (IF Len(match.g0) > 10 THEN 1 ELSE 0)
          + (IF KeywordCount(medical_terms, StrLower(match.g0)) > 0 THEN 1 ELSE 0), 10)

\* _extract_value(match, category)
_extract_value(match, category) ==
    IF match.groups = <<>> THEN match.g0
    ELSE IF category = "age" /\ Len(match.groups) >= 2
         THEN match.groups[1] \o "-" \o match.groups[2]
    ELSE IF category = "weight" /\ Len(match.groups) >= 2
         THEN match.groups[1] \o " " \o match.groups[2]
    ELSE match.groups[1]

\* the operator None of a criterion, a string that is no operator
NoOperator == "None"

\* _extract_operator(match)
_extract_operator(match) ==
    IF KeywordCount(<<">", GreaterEq, "greater than", "more than">>, match.g0) > 0 THEN ">"
    ELSE IF KeywordCount(<<"<", LessEq, "less than", "fewer than">>, match.g0) > 0 THEN "<"
    ELSE IF KeywordCount(<<"=", "equals", "equal to">>, match.g0) > 0 THEN "="
    ELSE IF KeywordCount(<<"between", "-", "to">>, match.g0) > 0 THEN "between"
    ELSE NoOperator

\* the best_match dict built for one match of a pattern, with its confidence
BestMatchOf(pat, match) ==
    [category |-> pat.category, match |-> match,
     value |-> _extract_value(match, pat.category),
     operator |-> _extract_operator(match), confidence |-> _calculate_match_confidence(match)]

\* the matches of one pattern in text, each as a candidate best_match
CandidatesOf(pat, ms) == [k \in 1..Len(ms) |-> BestMatchOf(pat, ms[k])]

RECURSIVE Candidates(_, _)
\* the matches the loops of _parse_single_criterion visit from pattern k on
Candidates(text, k) ==
    IF k > Len(patterns) THEN <<>>
    ELSE CandidatesOf(patterns[k], FindIter(patterns[k], text, 1)) \o Candidates(text, k + 1)

RECURSIVE BestOf(_, _, _)
\* best_match after the candidates cands[k..]: a later one replaces best only
\* with a strictly greater confidence
BestOf(cands, k, best) ==
    IF k > Len(cands) THEN best
    ELSE IF cands[k].confidence > best.confidence THEN BestOf(cands, k + 1, cands[k])
    ELSE BestOf(cands, k + 1, best)

\* best_match = None, best_confidence = 0.0
NoBest == [category |-> "", value |-> "", operator |-> NoOperator, confidence |-> 0]

\* the EligibilityCriterion returned for best, or None
CriterionOf(text, best) ==
    IF best # NoBest /\ best.confidence > 3
    THEN [text |-> text, criterion_type |-> _determine_criterion_type(text),
          category |-> best.category, value |-> best.value, operator |-> best.operator,
          confidence |-> best.confidence]
    ELSE PyNone

\* _parse_single_criterion(text)
_parse_single_criterion(text) ==
    IF Len(text) < 5 THEN PyNone ELSE CriterionOf(text, BestOf(Candidates(text, 1), 1, NoBest))

\* criterion appended to the list of its type, when there is one
AppendParsed(lists, criterion) ==
    IF criterion = PyNone THEN lists
    ELSE [lists EXCEPT ![criterion.criterion_type] = Append(@, criterion)]

RECURSIVE ParseAll(_, _, _)
\* the loop of parse_eligibility_text over criteria_sentences[k..]
ParseAll(sentences, k, lists) ==
    IF k > Len(sentences) THEN lists
    ELSE ParseAll(sentences, k + 1, AppendParsed(lists, _parse_single_criterion(sentences[k])))

\* parse_eligibility_text(eligibility_text)
parse_eligibility_text(eligibility_text) ==
    IF StrStrip(eligibility_text) = "" THEN [inclusion |-> <<>>, exclusion |-> <<>>]
    ELSE ParseAll(_split_into_criteria(StrStrip(StrLower(eligibility_text))), 1,
                  [inclusion |-> <<>>, exclusion |-> <<>>])

\* the categories of a structured dict, in the order of the dict
structured_categories == <<"age", "condition", "biomarker", "medication", "laboratory",
                           "lifestyle", "other">>

\* the dict appended to structured[type][category] for an EligibilityCriterion
CriterionDict(criterion) ==
    [text |-> criterion.text, value |-> criterion.value, operator |-> criterion.operator,
     confidence |-> criterion.confidence]

\* the category of structured[type] a criterion goes under
UnderOf(criterion) ==
    IF SeqContains(structured_categories, criterion.category) THEN criterion.category
    ELSE "other"

\* the dicts of the criteria of parsed[type] that go under category, in order
StructuredUnder(criteria, selected) == [k \in 1..Len(selected) |-> CriterionDict(selected[k])]

\* structured[type] of structure_eligibility_criteria
StructuredOf(criteria) ==
    [category \in ToSet(structured_categories) |->
        ListOf(StructuredUnder(criteria,
                               SelectSeq(criteria, LAMBDA c : UnderOf(c) = category)))]

\* structure_eligibility_criteria(raw_criteria), given its parse
StructureParsed(parsed) ==
    [inclusion |-> StructuredOf(parsed.inclusion), exclusion |-> StructuredOf(parsed.exclusion)]

\* structure_eligibility_criteria(raw_criteria)
structure_eligibility_criteria(raw_criteria) ==
    StructureParsed(parse_eligibility_text(raw_criteria))

\* overlap / total_words is a multiple of 1 / ScoreUnit for every total up to
\* 10 words; scores are counted in this unit
ScoreUnit == 2520

\* the digit d as a character
DigitStr(d) == SubSeq(DigitChars, d + 1, d + 1)

RECURSIVE IntStr(_)
\* str(n) for an int n >= 0
IntStr(n) == IF n < 10 THEN DigitStr(n) ELSE IntStr(n \div 10) \o DigitStr(n % 10)

\* str(x) for the float x of h hundredths
FloatStr(h) ==
    IntStr(h \div 100) \o "." \o
    (IF h % 10 = 0 THEN DigitStr((h % 100) \div 10)
     ELSE DigitStr((h % 100) \div 10) \o DigitStr(h % 10))

\* the position of the first "." of token, or 0
DotAt(token) ==
    IF StrContains(token, ".")
    THEN CHOOSE i \in 1..Len(token) :
            CharAt(token, i) = "." /\ \A j \in 1..(i - 1) : CharAt(token, j) # "."
    ELSE 0

\* the first two decimals of the digits frac, as hundredths
Hundredths(frac) ==
    IF Len(frac) = 0 THEN 0
    ELSE IF Len(frac) = 1 THEN 10 * IntOfDigits(frac, 1, 1)
    ELSE IntOfDigits(frac, 1, 2)

\* float(token) in hundredths, for a token \d+(?:\.\d+)? of at most two decimals
FloatOf(token) ==
    IF DotAt(token) = 0 THEN 100 * IntOfDigits(token, 1, Len(token))
    ELSE 100 * IntOfDigits(token, 1, DotAt(token) - 1)
         + Hundredths(SubSeq(token, DotAt(token) + 1, Len(token)))

\* re.findall(r'\d+(?:\.\d+)?', value)
FindNumbers(value) == FindIter(Pat("", <<Number>>, <<>>, FALSE), value, 1)

\* the comparison of _evaluate_numeric_criterion, numbers in hundredths
NumericMatches(patient_num, criterion_num, operator) ==
    CASE operator = ">" -> patient_num > criterion_num
      [] operator = "<" -> patient_num < criterion_num
      [] operator = "=" -> (IF patient_num > criterion_num THEN patient_num - criterion_num
                            ELSE criterion_num - patient_num) < 10
      [] OTHER -> patient_num = criterion_num

\* the dict _evaluate_numeric_criterion returns for the two numbers
NumericResult(patient_num, criterion_num, operator, matches) ==
    [matches |-> matches, score |-> IF matches THEN ScoreUnit ELSE 0,
     reason |-> "Patient value " \o FloatStr(patient_num)
                \o (IF matches THEN " meets" ELSE " does not meet") \o " criterion "
                \o operator \o " " \o FloatStr(criterion_num)]

\* the body of _evaluate_numeric_criterion after the two findall
NumericOf(patient_nums, criterion_nums, operator) ==
    IF patient_nums = <<>> \/ criterion_nums = <<>>
    THEN [matches |-> FALSE, score |-> 0, reason |-> "No numeric values found"]
    ELSE NumericResult(FloatOf(patient_nums[1].g0), FloatOf(criterion_nums[1].g0), operator,
                       NumericMatches(FloatOf(patient_nums[1].g0), FloatOf(criterion_nums[1].g0),
                                      operator))

\* _evaluate_numeric_criterion(patient_value, criterion_value, operator); float
\* of a token of the findall never raises
_evaluate_numeric_criterion(patient_value, criterion_value, operator) ==
    NumericOf(FindNumbers(patient_value), FindNumbers(criterion_value), operator)

\* f"{similarity:.2f}" for similarity = overlap / total
SimilarityStr(overlap, total) ==
    IntStr(RoundHalfEven(100 * overlap, total) \div 100) \o "."
    \o DigitStr((RoundHalfEven(100 * overlap, total) % 100) \div 10)
    \o DigitStr(RoundHalfEven(100 * overlap, total) % 10)

\* the dict _evaluate_text_criterion returns for the two word sets
TextResult(overlap, total_words) ==
    IF total_words = 0
    THEN [matches |-> FALSE, score |-> 0, reason |-> "No words to compare"]
    ELSE [matches |-> 10 * overlap > 3 * total_words,
          score |-> (overlap * ScoreUnit) \div total_words,
          reason |-> "Text similarity: " \o SimilarityStr(overlap, total_words) \o " ("
                     \o (IF 10 * overlap > 3 * total_words THEN "meets" ELSE "does not meet")
                     \o " threshold)"]

\* _evaluate_text_criterion(patient_value, criterion_value)
_evaluate_text_criterion(patient_value, criterion_value) ==
    IF patient_value = "" \/ criterion_value = ""
    THEN [matches |-> FALSE, score |-> 0, reason |-> "Missing values"]
    ELSE TextResult(Cardinality(ToSet(StrSplit(patient_value)) \cap ToSet(StrSplit(criterion_value))),
                    Cardinality(ToSet(StrSplit(patient_value)) \cup ToSet(StrSplit(criterion_value))))

\* patient_data.get(category, '')
PatientGet(patient_data, category) ==
    IF category \in DOMAIN patient_data THEN patient_data[category] ELSE ""

\* _evaluate_criterion(patient_data, criterion, category)
_evaluate_criterion(patient_data, criterion, category) ==
    IF category \in {"age", "weight", "laboratory"}
    THEN _evaluate_numeric_criterion(StrLower(PatientGet(patient_data, category)),
                                     StrLower(criterion.value), criterion.operator)
    ELSE _evaluate_text_criterion(StrLower(PatientGet(patient_data, category)),
                                  StrLower(criterion.value))

\* inclusion_score = 0.0 (or exclusion_score) and the two lists of a type
NoResults == [matches |-> <<>>, violations |-> <<>>, score |-> 0]

\* the branch on match_result['matches'] with a violation left unrecorded
Recorded_MatchesOnly(acc, category, criterion, match_result) ==
    IF match_result.matches
    THEN [acc EXCEPT !.matches = Append(@, [category |-> category, criterion |-> criterion,
                                            score |-> match_result.score]),
                     !.score = @ + match_result.score]
    ELSE acc

\* the branch on match_result['matches'] in the loops of
\* match_patient_to_criteria
Recorded(acc, category, criterion, match_result) ==
    IF match_result.matches
    THEN [acc EXCEPT !.matches = Append(@, [category |-> category, criterion |-> criterion,
                                            score |-> match_result.score]),
                     !.score = @ + match_result.score]
    ELSE [acc EXCEPT !.violations = Append(@, [category |-> category, criterion |-> criterion,
                                               reason |-> match_result.reason])]

RECURSIVE EvaluateList(_, _, _, _, _)
\* the inner loop over criteria_list[k..] of one category
EvaluateList(patient_data, category, criteria_list, k, acc) ==
    IF k > Len(criteria_list) THEN acc
    ELSE EvaluateList(patient_data, category, criteria_list, k + 1,
                      Recorded(acc, category, criteria_list[k],
                               _evaluate_criterion(patient_data, criteria_list[k], category)))

RECURSIVE EvaluateType(_, _, _, _)
\* the outer loop over the categories of structured_criteria[type], from the
\* c-th on
EvaluateType(patient_data, by_category, c, acc) ==
    IF c > Len(structured_categories) THEN acc
    ELSE EvaluateType(patient_data, by_category, c + 1,
                      EvaluateList(patient_data, structured_categories[c],
                                   by_category[structured_categories[c]], 1, acc))

\* overall_score with an exclusion counted once
OverallScore_Unweighted(inclusion_score, exclusion_score) == inclusion_score - exclusion_score

\* overall_score
OverallScore(inclusion_score, exclusion_score) == inclusion_score - (exclusion_score * 2)

Dart == "!"         \* U+1F3AF, the emoji of a strong match
Thinking == "?"     \* U+1F914, the emoji of a partial match

\* _generate_match_explanation(match_results)
_generate_match_explanation(inclusion, exclusion, score) ==
    (IF inclusion.matches # <<>>
     THEN <<" Meets " \o IntStr(Len(inclusion.matches)) \o " inclusion criteria">> ELSE <<>>)
    \o (IF inclusion.violations # <<>>
        THEN <<" Does not meet " \o IntStr(Len(inclusion.violations)) \o " inclusion criteria">>
        ELSE <<>>)
    \o (IF exclusion.matches # <<>>
        THEN <<" Meets " \o IntStr(Len(exclusion.matches)) \o " exclusion criteria">> ELSE <<>>)
    \o (IF score > 2 * ScoreUnit THEN <<Dart \o " Strong match - likely eligible">>
        ELSE IF score > 0 THEN <<Thinking \o " Partial match - may be eligible with review">>
        ELSE IF score > -ScoreUnit THEN <<" Weak match - unlikely to be eligible">>
        ELSE <<" Poor match - probably not eligible">>)

\* match_results of match_patient_to_criteria after its two loops
MatchResults(inclusion, exclusion) ==
    [overall_score |-> OverallScore(inclusion.score, exclusion.score),
     inclusion_matches |-> inclusion.matches,
     exclusion_matches |-> exclusion.matches,
     inclusion_violations |-> inclusion.violations,
     exclusion_violations |-> exclusion.violations,
     explanation |-> _generate_match_explanation(
                         inclusion, exclusion, OverallScore(inclusion.score, exclusion.score))]

\* match_patient_to_criteria(patient_data, structured_criteria)
match_patient_to_criteria(patient_data, structured_criteria) ==
    MatchResults(EvaluateType(patient_data, structured_criteria.inclusion, 1, NoResults),
                 EvaluateType(patient_data, structured_criteria.exclusion, 1, NoResults))

\* an eligibility text of two sentences, the first with the sign U+2265
AgeAndChemoText == "Age " \o GreaterEq \o " 18 years. Prior chemotherapy excluded."

\* the eligibility texts the parser is called on
EligTexts == <<
    "",
    AgeAndChemoText,
    "must be free of infection",
    "Age 18-65; excluded: non-smoker",
    "45 years old",
    "ECOG performance status " \o LessEq \o " 2; age = 18",
    "hemoglobin " \o GreaterEq \o " 10; no HIV",
    "weight > 50 kg. male",
    "Must be free of breast cancer; healthy volunteers",
    "hello world there",
    "not eligible if pregnant"
  >>

\* the patient_data dicts the criteria are matched against
EligPatients == <<
    [age |-> "45 years old", condition |-> "breast cancer", biomarker |-> "her2 positive",
     laboratory |-> "hemoglobin 12 g/dl", medication |-> "no prior chemotherapy"],
    [age |-> "18", lifestyle |-> "non-smoker never drinks"],
    [age |-> "45.05"],
    [age |-> "unknown", laboratory |-> "1"],
    [age |-> "17.95", laboratory |-> "2", other |-> "hiv"],
    [age |-> "45", condition |-> "breast cancer", medication |-> "chemotherapy"],
    <<>>
  >>

\* parse_eligibility_text on each of the texts
ParseMemo == ListOf([t \in 1..Len(EligTexts) |-> parse_eligibility_text(EligTexts[t])])

\* structure_eligibility_criteria on each of the texts
StructureMemo == ListOf([t \in 1..Len(EligTexts) |-> StructureParsed(ParseMemo[t])])

\* match_patient_to_criteria of each patient on the criteria of each text
EvalMemo ==
    ListOf([t \in 1..Len(EligTexts) |->
        ListOf([p \in 1..Len(EligPatients) |->
            match_patient_to_criteria(EligPatients[p], StructureMemo[t])])])

NoParse == [made |-> FALSE]
NoStructure == [made |-> FALSE]
NoEval == [made |-> FALSE]

EligibilityInit ==
    /\ last_parse = NoParse
    /\ structured = NoStructure
    /\ last_eval = NoEval

\* parser.parse_eligibility_text(EligTexts[t])
ParseEligibilityText(t) ==
    /\ last_parse' = [made |-> TRUE, text |-> EligTexts[t], t |-> t, result |-> ParseMemo[t]]
    /\ UNCHANGED <<structured, last_eval>>

\* parser.structure_eligibility_criteria(EligTexts[t])
StructureEligibilityCriteria(t) ==
    /\ structured' = [made |-> TRUE, text |-> EligTexts[t], t |-> t,
                      criteria |-> StructureMemo[t]]
    /\ UNCHANGED <<last_parse, last_eval>>

\* parser.match_patient_to_criteria(EligPatients[p], structured), on the dict
\* the last structure_eligibility_criteria returned
MatchPatientToCriteria(p) ==
    /\ structured.made
    /\ last_eval' = [made |-> TRUE, patient_data |-> EligPatients[p],
                     structured_criteria |-> structured.criteria,
                     results |-> EvalMemo[structured.t][p]]
    /\ UNCHANGED <<last_parse, structured>>

(***************************************************************************)
(* utils/geographic_matcher.py: GeographicMatcher                           *)
(***************************************************************************)
\* self.us_cities, in the order of the dict; lat and lon in 1/10000 of a degree
us_cities == <<
    [city |-> "new york", state |-> "NY", lat |-> 407128, lon |-> -740060],
    [city |-> "los angeles", state |-> "CA", lat |-> 340522, lon |-> -1182437],
    [city |-> "chicago", state |-> "IL", lat |-> 418781, lon |-> -876298],
    [city |-> "houston", state |-> "TX", lat |-> 297604, lon |-> -953698],
    [city |-> "phoenix", state |-> "AZ", lat |-> 334484, lon |-> -1120740],
    [city |-> "philadelphia", state |-> "PA", lat |-> 399526, lon |-> -751652],
    [city |-> "san antonio", state |-> "TX", lat |-> 294241, lon |-> -984936],
    [city |-> "san diego", state |-> "CA", lat |-> 327157, lon |-> -1171611],
    [city |-> "dallas", state |-> "TX", lat |-> 327767, lon |-> -967970],
    [city |-> "san jose", state |-> "CA", lat |-> 373382, lon |-> -1218863],
    [city |-> "austin", state |-> "TX", lat |-> 302672, lon |-> -977431],
    [city |-> "jacksonville", state |-> "FL", lat |-> 303322, lon |-> -816557],
    [city |-> "fort worth", state |-> "TX", lat |-> 327555, lon |-> -973308],
    [city |-> "columbus", state |-> "OH", lat |-> 399612, lon |-> -829988],
    [city |-> "charlotte", state |-> "NC", lat |-> 352271, lon |-> -808431],
    [city |-> "seattle", state |-> "WA", lat |-> 476062, lon |-> -1223321],
    [city |-> "denver", state |-> "CO", lat |-> 397392, lon |-> -1049903],
    [city |-> "boston", state |-> "MA", lat |-> 423601, lon |-> -710589],
    [city |-> "detroit", state |-> "MI", lat |-> 423314, lon |-> -830458],
    [city |-> "nashville", state |-> "TN", lat |-> 361627, lon |-> -867816]
  >>

\* self.state_abbreviations, in the order of the dict
state_abbreviations == <<
    <<"alabama", "AL">>, <<"alaska", "AK">>, <<"arizona", "AZ">>, <<"arkansas", "AR">>,
    <<"california", "CA">>, <<"colorado", "CO">>, <<"connecticut", "CT">>,
    <<"delaware", "DE">>, <<"florida", "FL">>, <<"georgia", "GA">>, <<"hawaii", "HI">>,
    <<"idaho", "ID">>, <<"illinois", "IL">>, <<"indiana", "IN">>, <<"iowa", "IA">>,
    <<"kansas", "KS">>, <<"kentucky", "KY">>, <<"louisiana", "LA">>, <<"maine", "ME">>,
    <<"maryland", "MD">>, <<"massachusetts", "MA">>, <<"michigan", "MI">>,
    <<"minnesota", "MN">>, <<"mississippi", "MS">>, <<"missouri", "MO">>, <<"montana", "MT">>,
    <<"nebraska", "NE">>, <<"nevada", "NV">>, <<"new hampshire", "NH">>,
    <<"new jersey", "NJ">>, <<"new mexico", "NM">>, <<"new york", "NY">>,
    <<"north carolina", "NC">>, <<"north dakota", "ND">>, <<"ohio", "OH">>,
    <<"oklahoma", "OK">>, <<"oregon", "OR">>, <<"pennsylvania", "PA">>,
    <<"rhode island", "RI">>, <<"south carolina", "SC">>, <<"south dakota", "SD">>,
    <<"tennessee", "TN">>, <<"texas", "TX">>, <<"utah", "UT">>, <<"vermont", "VT">>,
    <<"virginia", "VA">>, <<"washington", "WA">>, <<"west virginia", "WV">>,
    <<"wisconsin", "WI">>, <<"wyoming", "WY">>
  >>

\* the coordinates a request to the geocoder is answered with, for the cities
\* of the model that are not in us_cities
geocoded == <<
    [city |-> "rochester", lat |-> 440121, lon |-> -924802],
    [city |-> "cambridge", lat |-> 423736, lon |-> -711097]
  >>

\* the points of the model: those of us_cities, then those of geocoded
Points == [k \in 1..(Len(us_cities) + Len(geocoded)) |->
              IF k <= Len(us_cities) THEN <<us_cities[k].lat, us_cities[k].lon>>
              ELSE <<geocoded[k - Len(us_cities)].lat, geocoded[k - Len(us_cities)].lon>>]

\* calculate_distance between Points[i] and Points[j], the haversine formula
\* with earth_radius = 3959 evaluated in floating point, in hundredths of a
\* mile
DistanceTable == <<
    <<0, 244571, 71107, 141765, 213995, 8054, 158150, 242795, 137066, 254893, 151103, 83557,
      139827, 47627, 53106, 240208, 162751, 19022, 48059, 75859, 96812, 18867>>,
    <<244571, 0, 174241, 137099, 35685, 238836, 120166, 11149, 123784, 30546, 122513, 214351,
      120755, 197375, 211514, 96027, 82990, 259103, 197942, 177667, 153578, 258839>>,
    <<71107, 174241, 0, 94194, 145182, 66367, 105285, 173166, 80470, 183787, 97957, 86411,
      82440, 27564, 58753, 173302, 91826, 84862, 23705, 39753, 28616, 84598>>,
    <<141765, 137099, 94194, 0, 101424, 133993, 18912, 130114, 22481, 160782, 14625, 82072,
      23715, 99245, 92581, 188940, 87845, 160406, 110589, 66550, 99744, 160211>>,
    <<213995, 35685, 145182, 101424, 0, 207804, 84674, 29881, 88459, 61415, 86849, 179113,
      85401, 166409, 177883, 111455, 58558, 229531, 168754, 144305, 127856, 229275>>,
    <<8054, 238836, 66367, 133993, 207804, 0, 150532, 236792, 129749, 249900, 143525, 75865,
      132546, 41478, 45064, 237332, 157488, 27070, 44157, 68343, 93049, 26918>>,
    <<158150, 120166, 105285, 18912, 84674, 150532, 0, 112640, 25246, 145133, 7360, 100984,
      24025, 113938, 110385, 178589, 80229, 176518, 123844, 82337, 106082, 176311>>,
    <<242795, 11149, 173166, 130114, 29881, 236792, 112640, 0, 118165, 41641, 115489, 208806,
      115091, 195327, 207686, 106389, 83284, 257889, 196849, 174036, 153942, 257629>>,
    <<137066, 123784, 80470, 22481, 88459, 129749, 25246, 118165, 0, 144907, 18213, 90655, 3105,
      91257, 92837, 167987, 66261, 154924, 99932, 61624, 81046, 154702>>,
    <<254893, 30546, 183787, 160782, 61415, 249900, 145133, 41641, 144907, 0, 146483, 234104,
      142036, 208973, 227279, 70985, 92667, 267831, 207117, 193403, 159886, 267559>>,
    <<151103, 122513, 97957, 14625, 86849, 143525, 7360, 115489, 18213, 146483, 0, 95896, 17364,
      106668, 103859, 176964, 77174, 169407, 116490, 75253, 99243, 169198>>,
    <<83557, 214351, 86411, 82072, 179113, 75865, 100984, 208806, 90655, 234104, 95896, 0,
      93721, 66963, 34150, 245168, 146550, 101727, 83268, 49986, 111521, 101638>>,
    <<139827, 120755, 82440, 23715, 85401, 132546, 24025, 115091, 3105, 142036, 17364, 93721, 0,
      93838, 95872, 165911, 64371, 157616, 102234, 64503, 82058, 157393>>,
    <<47627, 197375, 27564, 99245, 166409, 41478, 113938, 195327, 91257, 208973, 106668, 66963,
      93838, 0, 34772, 200850, 116373, 64225, 16379, 33345, 56116, 63988>>,
    <<53106, 211514, 58753, 92581, 177883, 45064, 110385, 207686, 92837, 227279, 103859, 34150,
      95872, 34772, 0, 228105, 135574, 72060, 50497, 33940, 86561, 71921>>,
    <<240208, 96027, 173302, 188940, 111455, 237332, 178589, 106389, 167987, 70985, 176964,
      245168, 165911, 200850, 228105, 0, 101957, 248568, 193331, 197059, 144979, 248294>>,
    <<162751, 82990, 91826, 87845, 58558, 157488, 80229, 83284, 66261, 92667, 77174, 146550,
      64371, 116373, 135574, 101957, 0, 176560, 115439, 102045, 70715, 176293>>,
    <<19022, 259103, 84862, 160406, 229531, 27070, 176518, 257889, 154924, 267831, 169407,
      101727, 157616, 64225, 72060, 248568, 176560, 0, 61166, 94185, 108217, 276>>,
    <<48059, 197942, 23705, 110589, 168754, 44157, 123844, 196849, 99932, 207117, 116490, 83268,
      102234, 16379, 50497, 193331, 115439, 61166, 0, 47066, 48910, 60901>>,
    <<75859, 177667, 39753, 66550, 144305, 68343, 82337, 174036, 61624, 193403, 75253, 49986,
      64503, 33345, 33940, 197059, 102045, 94185, 47066, 0, 62004, 93979>>,
    <<96812, 153578, 28616, 99744, 127856, 93049, 106082, 153942, 81046, 159886, 99243, 111521,
      82058, 56116, 86561, 144979, 70715, 108217, 48910, 62004, 0, 107943>>,
    <<18867, 258839, 84598, 160211, 229275, 26918, 176311, 257629, 154702, 267559, 169198,
      101638, 157393, 63988, 71921, 248294, 176293, 276, 60901, 93979, 107943, 0>>
  >>

\* the upper-case form of a character
UpperChar(c) ==
    IF CharIn(c, LowerChars)
    THEN CharAt(UpperChars, CHOOSE k \in 1..Len(LowerChars) : CharAt(LowerChars, k) = c)
    ELSE c

RECURSIVE StrUpper(_)
\* str.upper()
StrUpper(s) ==
    IF s = "" THEN "" ELSE UpperChar(CharAt(s, 1)) \o StrUpper(SubSeq(s, 2, Len(s)))

\* c is a cased character
IsCased(c) == CharIn(c, LowerChars) \/ CharIn(c, UpperChars)

RECURSIVE TitleFrom(_, _)
\* str.title() from position i on: a letter after a cased character is
\* lowered, any other is raised
TitleFrom(s, i) ==
    IF i > Len(s) THEN ""
    ELSE (IF IsCased(CharAt(s, i - 1)) THEN LowerChar(CharAt(s, i)) ELSE UpperChar(CharAt(s, i)))
         \o TitleFrom(s, i + 1)

\* str.title()
StrTitle(s) == TitleFrom(s, 1)

RECURSIVE SplitOnFrom(_, _, _, _)
\* s.split(sep) for a one-character sep, from position i on, the current part
\* starting at start
SplitOnFrom(s, sep, i, start) ==
    IF i > Len(s) THEN <<SubSeq(s, start, Len(s))>>
    ELSE IF CharAt(s, i) = sep
         THEN <<SubSeq(s, start, i - 1)>> \o SplitOnFrom(s, sep, i + 1, i + 1)
         ELSE SplitOnFrom(s, sep, i + 1, start)

\* s.split(sep)
SplitOn(s, sep) == SplitOnFrom(s, sep, 1, 1)

RECURSIVE JoinWith(_, _)
\* sep.join(parts)
JoinWith(parts, sep) ==
    IF parts = <<>> THEN ""
    ELSE IF Len(parts) = 1 THEN parts[1]
    ELSE parts[1] \o sep \o JoinWith(Tail(parts), sep)

\* ([^,]+),\s*([^,]+)(?:,\s*([^,]+))? : the second segment is the comma, the
\* third \s* and group 2, the fourth the optional part with group 3
LocationPattern ==
    Pat("", <<Plus("nocomma"), Lit(","), Cat(<<Ws0, Plus("nocomma")>>),
              Opt(Cat(<<Lit(","), Ws0, Plus("nocomma")>>))>>, <<1, 3, 4>>, FALSE)

\* \b\d{5}(?:-\d{4})?\b, after its first \b
ZipPattern ==
    Pat("", <<Cat(<<Words(<<"0", "1", "2", "3", "4", "5", "6", "7", "8", "9">>),
                    Words(<<"0", "1", "2", "3", "4", "5", "6", "7", "8", "9">>),
                    Words(<<"0", "1", "2", "3", "4", "5", "6", "7", "8", "9">>),
                    Words(<<"0", "1", "2", "3", "4", "5", "6", "7", "8", "9">>),
                    Words(<<"0", "1", "2", "3", "4", "5", "6", "7", "8", "9">>),
                    Opt(Cat(<<Lit("-"),
                              Words(<<"0", "1", "2", "3", "4", "5", "6", "7", "8", "9">>),
                              Words(<<"0", "1", "2", "3", "4", "5", "6", "7", "8", "9">>),
                              Words(<<"0", "1", "2", "3", "4", "5", "6", "7", "8", "9">>),
                              Words(<<"0", "1", "2", "3", "4", "5", "6", "7", "8", "9">>)>>))>>)>>,
        <<>>, TRUE)

RECURSIVE ZipFrom(_, _)
RECURSIVE ZipStep(_, _, _)
\* _extract_zip_code(location_str), searching from position i on
ZipFrom(location_str, i) ==
    IF i > Len(location_str) THEN PyNone
    ELSE IF ~WordBoundary(location_str, i) THEN ZipFrom(location_str, i + 1)
    ELSE ZipStep(location_str, i, FirstPath(ZipPattern.segs, TRUE, 1, location_str, i))

ZipStep(location_str, i, p) ==
    IF p = <<>> THEN ZipFrom(location_str, i + 1)
    ELSE [zip |-> SubSeq(location_str, p[1], p[Len(p)] - 1)]

\* _extract_zip_code(location_str): None, or the zip code found
_extract_zip_code(location_str) == ZipFrom(location_str, 1)

\* the entries of us_cities for a city name
CityEntries(city_lower) == SelectSeq(us_cities, LAMBDA e : e.city = city_lower)

\* the entries of geocoded for a city name
GeocodedEntries(city_lower) == SelectSeq(geocoded, LAMBDA e : e.city = city_lower)

\* response = requests.get(url, ...) for the query of city_lower.  service
\* is the geocoder during this call: it answers the cities of service.answers
\* with status 200 and their coordinates; for any other query the request
\* fails as service.failure says: requests.get raises (no network, timeout),
\* the status is not 200, or the data is the empty list.
Response(city_lower, service) ==
    IF city_lower \in service.answers /\ GeocodedEntries(city_lower) # <<>>
    THEN [raised |-> FALSE, status_code |-> 200, data |-> GeocodedEntries(city_lower)]
    ELSE IF service.failure = "raises" THEN [raised |-> TRUE]
    ELSE IF service.failure = "status" THEN [raised |-> FALSE, status_code |-> 503, data |-> <<>>]
    ELSE [raised |-> FALSE, status_code |-> 200, data |-> <<>>]

\* the try statement of _get_coordinates around the response: the
\* coordinates of data[0] for a status 200 with data, None otherwise, an
\* exception being caught and printed; one request was sent
CoordinatesOf(response) ==
    IF ~response.raised /\ response.status_code = 200 /\ response.data # <<>>
    THEN [coordinates |-> [lat |-> response.data[1].lat, lon |-> response.data[1].lon],
          requests |-> 1]
    ELSE [coordinates |-> PyNone, requests |-> 1]

\* the request of _get_coordinates to the geocoder
GeocoderRequest(city_lower, service) == CoordinatesOf(Response(city_lower, service))

\* _get_coordinates asking the geocoder without looking into us_cities
_get_coordinates_GeocoderOnly(city, state, country, service) ==
    GeocoderRequest(StrLower(city), service)

\* _get_coordinates(city, state, country): the coordinates or None, and the
\* number of requests sent to the geocoder
_get_coordinates(city, state, country, service) ==
    IF CityEntries(StrLower(city)) # <<>>
    THEN [coordinates |-> [lat |-> CityEntries(StrLower(city))[1].lat,
                           lon |-> CityEntries(StrLower(city))[1].lon],
          requests |-> 0]
    ELSE GeocoderRequest(StrLower(city), service)

\* the names and the abbreviations of state_abbreviations
StateNames == {state_abbreviations[k][1] : k \in 1..Len(state_abbreviations)}
StateCodes == {state_abbreviations[k][2] : k \in 1..Len(state_abbreviations)}

\* self.state_abbreviations.get(name, name)
StateCodeOf(name) ==
    IF name \in StateNames
    THEN state_abbreviations[CHOOSE k \in 1..Len(state_abbreviations) :
                                 state_abbreviations[k][1] = name][2]
    ELSE name

\* city, state and country when the pattern matches
ComponentsOfMatch(m) ==
    [city |-> StrStrip(m.groups[1]), state |-> StrStrip(m.groups[2]),
     country |-> IF m.groups[3] # "" THEN StrStrip(SubSeq(m.groups[3], 2, Len(m.groups[3])))
                 ELSE "Unknown"]

\* city, state and country from the parts of location_str.split(','), two at
\* least, when the pattern does not match
ComponentsOfParts(parts) ==
    IF StrStrip(parts[2]) \in StateCodes \/ StrStrip(parts[2]) \in StateNames
    THEN [city |-> StrStrip(parts[1]),
          state |-> IF StrStrip(parts[2]) \in StateCodes THEN StrStrip(parts[2])
                    ELSE StateCodeOf(StrStrip(parts[2])),
          country |-> "USA"]
    ELSE [city |-> StrStrip(parts[1]), state |-> StrStrip(parts[2]),
          country |-> IF Len(parts) > 2 THEN StrStrip(parts[3]) ELSE "Unknown"]

\* the Location built for the components and the answer of _get_coordinates,
\* or None
LocationOf(location_str, c, answer) ==
    [location |->
        IF answer.coordinates # PyNone
        THEN [latitude |-> answer.coordinates.lat, longitude |-> answer.coordinates.lon,
              address |-> StrTitle(location_str), city |-> StrTitle(c.city),
              state |-> StrUpper(c.state), country |-> StrTitle(c.country),
              zip_code |-> _extract_zip_code(location_str)]
        ELSE PyNone,
     requests |-> answer.requests]

\* parse_location_string once the components are known
Located(location_str, c, service) ==
    LocationOf(location_str, c, _get_coordinates(c.city, c.state, c.country, service))

\* the branches of parse_location_string on re.search, ms being the matches
\* of the pattern in location_str
ParsedLocation(location_str, ms, service) ==
    IF ms # <<>> THEN Located(location_str, ComponentsOfMatch(ms[1]), service)
    ELSE IF Len(SplitOn(location_str, ",")) >= 2
         THEN Located(location_str, ComponentsOfParts(SplitOn(location_str, ",")), service)
    ELSE [location |-> PyNone, requests |-> 0]

\* parse_location_string(location_str): the Location or None, and the number
\* of requests sent to the geocoder
parse_location_string(location_str, service) ==
    IF StrStrip(location_str) = "" THEN [location |-> PyNone, requests |-> 0]
    ELSE ParsedLocation(StrLower(StrStrip(location_str)),
                        FindIter(LocationPattern, StrLower(StrStrip(location_str)), 1), service)

\* round(distance, 1) for the distance of Points[i] from Points[j], in tenths of
\* a mile
RoundedTable == <<
    <<0, 24457, 7111, 14176, 21399, 805, 15815, 24279, 13707, 25489, 15110, 8356, 13983, 4763, 5311, 24021, 16275, 1902, 4806, 7586, 9681, 1887>>,
    <<24457, 0, 17424, 13710, 3569, 23884, 12017, 1115, 12378, 3055, 12251, 21435, 12075, 19738, 21151, 9603, 8299, 25910, 19794, 17767, 15358, 25884>>,
    <<7111, 17424, 0, 9419, 14518, 6637, 10528, 17317, 8047, 18379, 9796, 8641, 8244, 2756, 5875, 17330, 9183, 8486, 2370, 3975, 2862, 8460>>,
    <<14176, 13710, 9419, 0, 10142, 13399, 1891, 13011, 2248, 16078, 1463, 8207, 2371, 9925, 9258, 18894, 8785, 16041, 11059, 6655, 9974, 16021>>,
    <<21399, 3569, 14518, 10142, 0, 20780, 8467, 2988, 8846, 6141, 8685, 17911, 8540, 16641, 17788, 11145, 5856, 22953, 16875, 14430, 12786, 22927>>,
    <<805, 23884, 6637, 13399, 20780, 0, 15053, 23679, 12975, 24990, 14352, 7586, 13255, 4148, 4506, 23733, 15749, 2707, 4416, 6834, 9305, 2692>>,
    <<15815, 12017, 10528, 1891, 8467, 15053, 0, 11264, 2525, 14513, 736, 10098, 2402, 11394, 11039, 17859, 8023, 17652, 12384, 8234, 10608, 17631>>,
    <<24279, 1115, 17317, 13011, 2988, 23679, 11264, 0, 11817, 4164, 11549, 20881, 11509, 19533, 20769, 10639, 8328, 25789, 19685, 17404, 15394, 25763>>,
    <<13707, 12378, 8047, 2248, 8846, 12975, 2525, 11817, 0, 14491, 1821, 9066, 311, 9126, 9284, 16799, 6626, 15492, 9993, 6162, 8105, 15470>>,
    <<25489, 3055, 18379, 16078, 6141, 24990, 14513, 4164, 14491, 0, 14648, 23410, 14204, 20897, 22728, 7099, 9267, 26783, 20712, 19340, 15989, 26756>>,
    <<15110, 12251, 9796, 1463, 8685, 14352, 736, 11549, 1821, 14648, 0, 9590, 1736, 10667, 10386, 17696, 7717, 16941, 11649, 7525, 9924, 16920>>,
    <<8356, 21435, 8641, 8207, 17911, 7586, 10098, 20881, 9066, 23410, 9590, 0, 9372, 6696, 3415, 24517, 14655, 10173, 8327, 4999, 11152, 10164>>,
    <<13983, 12075, 8244, 2371, 8540, 13255, 2402, 11509, 311, 14204, 1736, 9372, 0, 9384, 9587, 16591, 6437, 15762, 10223, 6450, 8206, 15739>>,
    <<4763, 19738, 2756, 9925, 16641, 4148, 11394, 19533, 9126, 20897, 10667, 6696, 9384, 0, 3477, 20085, 11637, 6423, 1638, 3335, 5612, 6399>>,
    <<5311, 21151, 5875, 9258, 17788, 4506, 11039, 20769, 9284, 22728, 10386, 3415, 9587, 3477, 0, 22810, 13557, 7206, 5050, 3394, 8656, 7192>>,
    <<24021, 9603, 17330, 18894, 11145, 23733, 17859, 10639, 16799, 7099, 17696, 24517, 16591, 20085, 22810, 0, 10196, 24857, 19333, 19706, 14498, 24829>>,
    <<16275, 8299, 9183, 8785, 5856, 15749, 8023, 8328, 6626, 9267, 7717, 14655, 6437, 11637, 13557, 10196, 0, 17656, 11544, 10205, 7071, 17629>>,
    <<1902, 25910, 8486, 16041, 22953, 2707, 17652, 25789, 15492, 26783, 16941, 10173, 15762, 6423, 7206, 24857, 17656, 0, 6117, 9418, 10822, 28>>,
    <<4806, 19794, 2370, 11059, 16875, 4416, 12384, 19685, 9993, 20712, 11649, 8327, 10223, 1638, 5050, 19333, 11544, 6117, 0, 4707, 4891, 6090>>,
    <<7586, 17767, 3975, 6655, 14430, 6834, 8234, 17404, 6162, 19340, 7525, 4999, 6450, 3335, 3394, 19706, 10205, 9418, 4707, 0, 6200, 9398>>,
    <<9681, 15358, 2862, 9974, 12786, 9305, 10608, 15394, 8105, 15989, 9924, 11152, 8206, 5612, 8656, 14498, 7071, 10822, 4891, 6200, 0, 10794>>,
    <<1887, 25884, 8460, 16021, 22927, 2692, 17631, 25763, 15470, 26756, 16920, 10164, 15739, 6399, 7192, 24829, 17629, 28, 6090, 9398, 10794, 0>>
  >>

\* the index in Points of the coordinates of a Location
PointOf(location) ==
    CHOOSE k \in 1..Len(Points) : Points[k] = <<location.latitude, location.longitude>>

\* calculate_distance measuring from the first point of the model, whatever
\* location1 is
calculate_distance_FromFirstPoint(location1, location2) == DistanceTable[1][PointOf(location2)]

\* calculate_distance(location1, location2), in hundredths of a mile
calculate_distance(location1, location2) == DistanceTable[PointOf(location1)][PointOf(location2)]

\* _categorize_distance(distance_miles), the distance in hundredths of a mile
_categorize_distance(distance) ==
    IF distance <= 25 * 100 THEN "local"
    ELSE IF distance <= 100 * 100 THEN "regional"
    ELSE IF distance <= 500 * 100 THEN "national"
    ELSE "international"

\* str(trial_row.get('Locations', ''))
LocationsStr(trial_row) ==
    IF "Locations" \in DOMAIN trial_row.cells THEN trial_row.cells["Locations"] ELSE ""

RECURSIVE SplitAny(_, _, _, _)
\* re.split(r'[;|]', s) from position i on, the current part starting at start
SplitAny(s, seps, i, start) ==
    IF i > Len(s) THEN <<SubSeq(s, start, Len(s))>>
    ELSE IF CharAt(s, i) \in seps
         THEN <<SubSeq(s, start, i - 1)>> \o SplitAny(s, seps, i + 1, i + 1)
         ELSE SplitAny(s, seps, i + 1, start)

\* the TrialLocation of a facility whose location was parsed, if it was
TrialLocationOf(facility_name, parsed_location) ==
    IF parsed_location # PyNone
    THEN <<[facility_name |-> facility_name, location |-> parsed_location,
            site_status |-> "active"]>>
    ELSE <<>>

\* the body of the loop of _extract_trial_locations for one stripped loc_str
\* and its parts = loc_str.split(',')
FacilityOf(loc_str, parts, service) ==
    IF loc_str # "" /\ Len(parts) >= 2
    THEN TrialLocationOf(StrStrip(parts[1]),
                         parse_location_string(StrStrip(JoinWith(Tail(parts), ",")),
                                               service).location)
    ELSE <<>>

RECURSIVE FacilitiesFrom(_, _, _)
\* the loop of _extract_trial_locations over location_strings[k..]
FacilitiesFrom(location_strings, k, service) ==
    IF k > Len(location_strings) THEN <<>>
    ELSE FacilityOf(StrStrip(location_strings[k]),
                    SplitOn(StrStrip(location_strings[k]), ","), service)
         \o FacilitiesFrom(location_strings, k + 1, service)

\* _extract_trial_locations(trial_row)
_extract_trial_locations(trial_row, service) ==
    IF LocationsStr(trial_row) # "" /\ LocationsStr(trial_row) # "nan"
    THEN FacilitiesFrom(SplitAny(LocationsStr(trial_row), {";", "|"}, 1, 1), 1, service)
    ELSE <<>>

\* min_distance = float('inf'), closest_location = None
NoClosest == [closest_location |-> PyNone]

RECURSIVE Closest(_, _, _, _)
\* the loop over trial_locations[k..] that keeps the first location of the
\* least distance from patient_loc
Closest(patient_loc, trial_locations, k, best) ==
    IF k > Len(trial_locations) THEN best
    ELSE IF best = NoClosest
            \/ calculate_distance(patient_loc, trial_locations[k].location)
                   < best.min_distance
         THEN Closest(patient_loc, trial_locations, k + 1,
                      [min_distance |-> calculate_distance(patient_loc,
                                                           trial_locations[k].location),
                       closest_location |-> trial_locations[k]])
         ELSE Closest(patient_loc, trial_locations, k + 1, best)

\* trial.copy() with the four columns of the closest location set
Annotated(trial, best) ==
    [trial EXCEPT !.cells =
        ("distance_miles" :> best.min_distance)
        @@ ("closest_facility" :> best.closest_location.facility_name)
        @@ ("closest_location" :> best.closest_location.location.address)
        @@ ("travel_category" :> _categorize_distance(best.min_distance))
        @@ @]

\* what the body of the loop of filter_trials_by_location appends for a trial
\* with its closest location, max_distance_miles being in miles
KeptOf(trial, best, max_distance_miles) ==
    IF best # NoClosest /\ best.min_distance <= 100 * max_distance_miles
    THEN <<Annotated(trial, best)>> ELSE <<>>

RECURSIVE FilteredTrials(_, _, _, _, _)
\* filtered_trials after the loop over the rows k.. of trials_df
FilteredTrials(rows, k, patient_loc, max_distance_miles, service) ==
    IF k > Len(rows) THEN <<>>
    ELSE KeptOf(rows[k],
                Closest(patient_loc, _extract_trial_locations(rows[k], service), 1, NoClosest),
                max_distance_miles)
         \o FilteredTrials(rows, k + 1, patient_loc, max_distance_miles, service)

\* The name pd is not bound in geographic_matcher.py: there is no import of
\* pandas.  Evaluating it raises NameError.
NameError(at, filtered_trials) ==
    [outcome |-> "NameError", at |-> at, filtered_trials |-> filtered_trials]

\* a call that returns df
ReturnedFrame(df) == [outcome |-> "returned", result |-> df]

\* filter_trials_by_location after the patient location was parsed
FilterParsed(trials_df_, patient_loc, max_distance_miles, service) ==
    IF patient_loc = PyNone THEN ReturnedFrame(trials_df_)
    ELSE NameError("pd.DataFrame",
                   FilteredTrials(trials_df_.rows, 1, patient_loc, max_distance_miles, service))

\* filter_trials_by_location(trials_df, patient_location, max_distance_miles)
\* for a string patient_location, in a module whose annotations are not
\* evaluated when the class body runs
filter_trials_by_location(trials_df_, patient_location, max_distance_miles, service) ==
    IF trials_df_.rows = <<>> THEN ReturnedFrame(trials_df_)
    ELSE FilterParsed(trials_df_, parse_location_string(patient_location, service).location,
                      max_distance_miles, service)

\* f"{parts[1].strip().title()}, {parts[2].strip().upper()}" for the parts of
\* a facility entry, three at least
CityStateOf(parts) == StrTitle(StrStrip(parts[2])) \o ", " \o StrUpper(StrStrip(parts[3]))

\* location_counts after location_counts[city_state]['trial_count'] += 1, the
\* entry being made first when the key is new; the entries are in the order
\* the keys were first seen
Counted(counts, city_state) ==
    IF \E k \in DOMAIN counts : counts[k].location = city_state
    THEN [k \in DOMAIN counts |->
             IF counts[k].location = city_state
             THEN [counts[k] EXCEPT !.trial_count = @ + 1] ELSE counts[k]]
    ELSE Append(counts, [location |-> city_state, trial_count |-> 1])

\* The body of the loop over location_strings for one stripped loc_str and
\* its parts = loc_str.split(','): with two parts parts[2] raises IndexError,
\* which nothing catches.
CountedEntry(acc, loc_str, parts) ==
    IF loc_str = "" \/ Len(parts) < 2 THEN acc
    ELSE IF Len(parts) < 3 THEN [raised |-> TRUE, counts |-> acc.counts]
    ELSE [raised |-> FALSE, counts |-> Counted(acc.counts, CityStateOf(parts))]

RECURSIVE CountEntries(_, _, _)
\* the loop over location_strings[k..] of one trial
CountEntries(location_strings, k, acc) ==
    IF k > Len(location_strings) \/ acc.raised THEN acc
    ELSE CountEntries(location_strings, k + 1,
                      CountedEntry(acc, StrStrip(location_strings[k]),
                                   SplitOn(StrStrip(location_strings[k]), ",")))

RECURSIVE CountTrials(_, _, _)
\* the loop of suggest_alternative_locations over the rows k.. of trials_df
CountTrials(rows, k, acc) ==
    IF k > Len(rows) \/ acc.raised THEN acc
    ELSE IF LocationsStr(rows[k]) # "" /\ LocationsStr(rows[k]) # "nan"
         THEN CountTrials(rows, k + 1,
                          CountEntries(SplitAny(LocationsStr(rows[k]), {";", "|"}, 1, 1), 1, acc))
         ELSE CountTrials(rows, k + 1, acc)

\* round(distance, 1) for the distance of two Locations, in tenths of a mile
RoundedDistance(location1, location2) ==
    RoundedTable[PointOf(location1)][PointOf(location2)]

\* the suggestion appended for an entry of location_counts whose location was
\* parsed as parsed_loc, if one is
SuggestionOf(data, patient_loc, parsed_loc) ==
    IF parsed_loc # PyNone /\ calculate_distance(patient_loc, parsed_loc) <= 500 * 100
    THEN <<[location |-> data.location, trial_count |-> data.trial_count,
            distance_miles |-> RoundedDistance(patient_loc, parsed_loc),
            travel_category |->
                _categorize_distance(calculate_distance(patient_loc, parsed_loc))]>>
    ELSE <<>>

RECURSIVE SuggestionsFrom(_, _, _, _)
\* suggestions after the loop over the entries k.. of location_counts
SuggestionsFrom(counts, k, patient_loc, service) ==
    IF k > Len(counts) THEN <<>>
    ELSE (IF counts[k].trial_count >= 3
          THEN SuggestionOf(counts[k], patient_loc,
                            parse_location_string(counts[k].location, service).location)
          ELSE <<>>)
         \o SuggestionsFrom(counts, k + 1, patient_loc, service)

\* the key (-x['trial_count'], x['distance_miles']) of x is less than that of y
KeyLess(x, y) ==
    \/ x.trial_count > y.trial_count
    \/ x.trial_count = y.trial_count /\ x.distance_miles < y.distance_miles

RECURSIVE InsertByKey(_, _)
\* x put into the sorted list after the elements whose key is not greater
InsertByKey(x, sorted) ==
    IF sorted = <<>> THEN <<x>>
    ELSE IF KeyLess(x, sorted[1]) THEN <<x>> \o sorted
    ELSE <<sorted[1]>> \o InsertByKey(x, Tail(sorted))

RECURSIVE SortByKey(_, _, _)
\* suggestions.sort(key=...): a stable sort, suggestions[k..] being put into
\* sorted one after the other
SortByKey(suggestions, k, sorted) ==
    IF k > Len(suggestions) THEN sorted
    ELSE SortByKey(suggestions, k + 1, InsertByKey(suggestions[k], sorted))

\* a call that raises IndexError
IndexError == [outcome |-> "IndexError"]

\* a call that returns the list suggestions
ReturnedList(suggestions) == [outcome |-> "returned", result |-> suggestions]

\* suggest_alternative_locations once location_counts is made, or the loop
\* that makes it has raised
SuggestCounted(acc, patient_loc, max_suggestions, service) ==
    IF acc.raised THEN IndexError
    ELSE ReturnedList(SubSeq(SortByKey(SuggestionsFrom(acc.counts, 1, patient_loc, service),
                                       1, <<>>),
                             1, Min(max_suggestions,
                                    Len(SuggestionsFrom(acc.counts, 1, patient_loc, service)))))

\* suggest_alternative_locations after the patient location was parsed
SuggestParsed(patient_loc, trials_df_, max_suggestions, service) ==
    IF patient_loc = PyNone THEN ReturnedList(<<>>)
    ELSE SuggestCounted(CountTrials(trials_df_.rows, 1, [raised |-> FALSE, counts |-> <<>>]),
                        patient_loc, max_suggestions, service)

\* suggest_alternative_locations(patient_location, trials_df, max_suggestions)
\* for a string patient_location, in a module that was imported
suggest_alternative_locations(patient_location, trials_df_, max_suggestions, service) ==
    SuggestParsed(parse_location_string(patient_location, service).location,
                  trials_df_, max_suggestions, service)

\* from utils.geographic_matcher import GeographicMatcher.  The annotation
\* "-> pd.DataFrame" of line 215 is evaluated when the def statement runs,
\* unless the interpreter defers annotations (PEP 649, Python 3.14): the
\* import raises NameError, or it succeeds.
ImportGeographicMatcher(deferred) ==
    IF deferred THEN [outcome |-> "imported"] ELSE NameError("import", <<>>)

\* the Locations cells of the trials of the match sets
GeoLocations == <<
    "Mass General, Boston, MA",
    "Clinic A, Chicago, IL; Clinic B, Cambridge, MA",
    "Boston, MA",
    NaN,
    "Mayo Clinic, Rochester, MN|NYU, New York, NY",
    "Penn Medicine, Philadelphia, PA"
  >>

\* the match set whose rows are the trials ks, in this order
GeoTable(ks) ==
    [columns |-> {"NCT", "Locations"},
     rows |-> ListOf([i \in 1..Len(ks) |->
                [index |-> ks[i] - 1,
                 cells |-> ("NCT" :> ("NCT" \o IntStr(ks[i]))) @@ ("Locations" :> GeoLocations[ks[i]])]])]

\* the match sets filter_trials_by_location is called on
GeoTables == <<GeoTable(<<>>), GeoTable(<<1>>), GeoTable(<<3, 4>>), GeoTable(<<2, 5>>),
               GeoTable(<<6, 5, 2, 1, 3, 4>>)>>

\* the patient locations, and the radii in miles
PatientLocations == <<"Boston, MA", "", "Boston", "Cambridge, MA", "new york, ny", "Rochester, MN">>
Radii == <<25, 100, 500>>

\* what the geocoder may be during a call
Services ==
    [answers : SUBSET {geocoded[k].city : k \in 1..Len(geocoded)},
     failure : {"raises", "status", "empty"}]

NoFilter == [made |-> FALSE]
NoDistance == [made |-> FALSE]
NoLocation == [made |-> FALSE]
NoSuggest == [made |-> FALSE]

\* no call of the geographic matcher is being looked at
GeoQuiet ==
    ~last_filter.made /\ ~last_distance.made /\ ~last_location.made /\ ~last_suggest.made

GeoInit ==
    /\ deferred_annotations \in BOOLEAN
    /\ last_filter = NoFilter
    /\ last_distance = NoDistance
    /\ last_location = NoLocation
    /\ last_suggest = NoSuggest

\* The application imports GeographicMatcher and calls
\* geo_matcher.filter_trials_by_location(matches, patient_location,
\* distance_miles).
FilterTrialsByLocation(tb, loc, r, service) ==
    /\ GeoQuiet
    /\ last_filter' =
          [made |-> TRUE, trials_df |-> GeoTables[tb],
           patient_location |-> PatientLocations[loc], max_distance_miles |-> Radii[r],
           service |-> service,
           call |-> IF ImportGeographicMatcher(deferred_annotations).outcome = "NameError"
                    THEN ImportGeographicMatcher(deferred_annotations)
                    ELSE filter_trials_by_location(GeoTables[tb], PatientLocations[loc],
                                                   Radii[r], service)]
    /\ UNCHANGED <<deferred_annotations, last_distance, last_location, last_suggest>>

\* the outcome of the call is dropped, for the next call
NewFilter ==
    /\ last_filter.made
    /\ last_filter' = NoFilter
    /\ UNCHANGED <<deferred_annotations, last_distance, last_location, last_suggest>>

\* the location strings "City, ST" of the cities of the model
CityStrings ==
    [k \in 1..Len(us_cities) |-> StrTitle(us_cities[k].city) \o ", " \o us_cities[k].state]
    \o <<"Rochester, MN", "Cambridge, MA">>

\* the Location objects parse_location_string makes of them when the geocoder
\* answers
CityLocations ==
    [k \in 1..Len(CityStrings) |->
        parse_location_string(CityStrings[k],
                              [answers |-> {geocoded[g].city : g \in 1..Len(geocoded)},
                               failure |-> "raises"]).location]

\* if loc1 and loc2: distance = matcher.calculate_distance(loc1, loc2), for
\* two parsed locations, and the travel category of that distance; the module
\* has to be imported for the call to be made
CalculateDistance(a, b) ==
    /\ GeoQuiet
    /\ ImportGeographicMatcher(deferred_annotations).outcome = "imported"
    /\ CityLocations[a] # PyNone /\ CityLocations[b] # PyNone
    /\ last_distance' =
          [made |-> TRUE, location1 |-> CityLocations[a], location2 |-> CityLocations[b],
           distance |-> calculate_distance(CityLocations[a], CityLocations[b]),
           travel_category |->
               _categorize_distance(calculate_distance(CityLocations[a], CityLocations[b]))]
    /\ UNCHANGED <<deferred_annotations, last_filter, last_location, last_suggest>>

\* the location strings parse_location_string is called on: those of the
\* cities of the model, and others
LocationStrings ==
    CityStrings \o <<"Los Angeles, CA, USA", "new york , new york", "Springfield, IL",
                     "Boston", "", "Paris, Ile-de-France, France", "boston,ma 02114">>

\* location = matcher.parse_location_string(loc_str); the module has to be
\* imported for the call to be made
ParseLocationString(k, service) ==
    /\ GeoQuiet
    /\ ImportGeographicMatcher(deferred_annotations).outcome = "imported"
    /\ last_location' =
          [made |-> TRUE, location_str |-> LocationStrings[k], service |-> service,
           result |-> parse_location_string(LocationStrings[k], service)]
    /\ UNCHANGED <<deferred_annotations, last_filter, last_distance, last_suggest>>

\* the location is dropped, for the next call
NewLocation ==
    /\ last_location.made
    /\ last_location' = NoLocation
    /\ UNCHANGED <<deferred_annotations, last_filter, last_distance, last_suggest>>

\* the Locations cells of the trials of the candidate sets
SuggestLocations == <<
    "Mass General, Boston, MA",
    "Dana-Farber, Boston, MA; Brigham, Boston, MA",
    "NYU, New York, NY|Tufts, boston, ma",
    "Sloan Kettering, New York, NY; Penn, Philadelphia, PA",
    "Mount Sinai, New York, NY; Jefferson, Philadelphia, PA; UCLA, Los Angeles, CA",
    "Temple, Philadelphia, PA; Cedars, Los Angeles, CA; Mayo Clinic, Rochester, MN",
    "Keck, Los Angeles, CA; Saint Marys, Rochester, MN; Mercy, Springfield, IL",
    "Methodist, Rochester, MN; Memorial, Springfield, IL; HSHS, Springfield, IL",
    "Clinic, Chicago",
    NaN,
    "Boston, MA",
    ""
  >>

\* the candidate set whose rows are the trials ks, in this order
SuggestTable(ks) ==
    [columns |-> {"NCT", "Locations"},
     rows |-> ListOf([i \in 1..Len(ks) |->
                [index |-> i - 1,
                 cells |-> ("NCT" :> ("NCT" \o IntStr(ks[i])))
                           @@ ("Locations" :> SuggestLocations[ks[i]])]])]

\* the candidate sets suggest_alternative_locations is called on
SuggestTables == <<SuggestTable(<<>>), SuggestTable(<<1, 2>>), SuggestTable(<<1, 2, 3, 4, 5, 6>>),
                  SuggestTable(<<8, 7, 6, 5, 4, 3, 10, 12>>), SuggestTable(<<1, 9, 3>>),
                  SuggestTable(<<10, 11, 12>>), SuggestTable(<<4, 5, 6, 3, 1, 2>>)>>

\* the values of max_suggestions, its default first
MaxSuggestions == <<5, 1, 2>>

\* The application imports GeographicMatcher and calls
\* matcher.suggest_alternative_locations(patient_location, trials_df,
\* max_suggestions).
SuggestAlternativeLocations(loc, tb, m, service) ==
    /\ GeoQuiet
    /\ last_suggest' =
          [made |-> TRUE, patient_location |-> PatientLocations[loc],
           trials_df |-> SuggestTables[tb], max_suggestions |-> MaxSuggestions[m],
           service |-> service,
           call |-> IF ImportGeographicMatcher(deferred_annotations).outcome = "NameError"
                    THEN ImportGeographicMatcher(deferred_annotations)
                    ELSE suggest_alternative_locations(PatientLocations[loc], SuggestTables[tb],
                                                       MaxSuggestions[m], service)]
    /\ UNCHANGED <<deferred_annotations, last_filter, last_distance, last_location>>

\* the outcome of the call is dropped, for the next call
NewSuggest ==
    /\ last_suggest.made
    /\ last_suggest' = NoSuggest
    /\ UNCHANGED <<deferred_annotations, last_filter, last_distance, last_location>>

\* the distance is dropped, for the next call
NewDistance ==
    /\ last_distance.made
    /\ last_distance' = NoDistance
    /\ UNCHANGED <<deferred_annotations, last_filter, last_location, last_suggest>>

(***************************************************************************)
(* clean_trials.py: the CSV cleaner                                         *)
(***************************************************************************)
\* s.startswith(prefix)
StartsWith(s, prefix) == Len(s) >= Len(prefix) /\ SubSeq(s, 1, Len(prefix)) = prefix

\* any(cell.strip().startswith('<') for cell in row)
AnyCellStartsWithLt(row) == \E c \in DOMAIN row : StartsWith(StrStrip(row[c]), "<")

\* the test of line 20: the row is appended to cleaned
IsKept(row, num_cols) == Len(row) = num_cols /\ ~AnyCellStartsWithLt(row)

RECURSIVE CleanRows(_, _, _, _)
\* cleaned and bad_rows after the loop over rows[k..]
CleanRows(rows, k, num_cols, acc) ==
    IF k > Len(rows) THEN acc
    ELSE IF IsKept(rows[k], num_cols)
         THEN CleanRows(rows, k + 1, num_cols,
                        [acc EXCEPT !.cleaned = Append(@, rows[k])])
         ELSE CleanRows(rows, k + 1, num_cols, [acc EXCEPT !.bad_rows = @ + 1])

\* clean_csv() for the rows read from RAW_FILE: nothing is written when there
\* is no row; otherwise cleaned is written, and the counts are printed
clean_csv(rows) ==
    IF rows = <<>> THEN [written |-> FALSE]
    ELSE [written |-> TRUE,
          cleaned |-> CleanRows(rows, 2, Len(rows[1]), [cleaned |-> <<rows[1]>>, bad_rows |-> 0]).cleaned,
          kept |-> Len(CleanRows(rows, 2, Len(rows[1]),
                                 [cleaned |-> <<rows[1]>>, bad_rows |-> 0]).cleaned) - 1,
          bad_rows |-> CleanRows(rows, 2, Len(rows[1]),
                                 [cleaned |-> <<rows[1]>>, bad_rows |-> 0]).bad_rows]

\* the header of the raw files, and the data rows they are made of
RawHeader == <<"NCTId", "Condition">>
RawRows == <<
    <<"NCT1", "Breast Cancer">>,
    <<"NCT2">>,
    <<"<html>", "x">>,
    <<"NCT3", "see <b>note</b>">>,
    <<"NCT4", "  <div>">>,
    <<"NCT5", "Lung Cancer", "extra">>
  >>

\* the largest number of data rows of a raw file
MaxDataRows == 3

\* the lists of n data rows
DataRows(n) == {[k \in 1..n |-> RawRows[f[k]]] : f \in [1..n -> 1..Len(RawRows)]}

\* the raw files: the empty file, and a header with up to MaxDataRows rows
RawFiles ==
    {<<>>} \cup UNION {{<<RawHeader>> \o ListOf(d) : d \in DataRows(n)} : n \in 0..MaxDataRows}

NotWritten == [written |-> FALSE]
NoClean == [made |-> FALSE]

CleanerInit ==
    /\ raw_file \in RawFiles
    /\ clean_file = NotWritten
    /\ last_clean = NoClean

\* python clean_trials.py
CleanCsv ==
    /\ ~last_clean.made
    /\ last_clean' = [made |-> TRUE, rows |-> raw_file, report |-> clean_csv(raw_file)]
    /\ clean_file' = IF clean_csv(raw_file).written
                     THEN [written |-> TRUE, rows |-> clean_csv(raw_file).cleaned]
                     ELSE clean_file
    /\ UNCHANGED raw_file

(***************************************************************************)
(* Properties of the Age and Sex sub-scores                                  *)
(***************************************************************************)
\* the latest call scored the rows of the table
Scored == last_match.made /\ ~NoEntities(BundleOf(last_match))

\* the sub-score the latest call gave row i for field, in tenths
SubScoreOf(i, field) == last_match.scores_and_details[i].field_scores[field]

\* the lower-cased cell of row i of the table in the column field
FieldOf(i, field) == StrLower(trials_df.rows[i].cells[field])

\* the patient's age: the first numeric token of the demographic entities
AgeOfPatient == PatientAge(BundleOf(last_match).demographics)

\* t is one of the comma-separated tokens of the field
HasToken(field, t) ==
    \/ field = t
    \/ StartsWith(field, t \o ",")
    \/ StrContains(field, ", " \o t \o ",")
    \/ Len(field) > Len(t) + 1
         /\ SubSeq(field, Len(field) - Len(t) - 1, Len(field)) = ", " \o t

\* the life-stage tokens of the field
LifeStages(field) == {t \in {"adult", "older_adult", "pediatric", "child"} : HasToken(field, t)}

\* the life stage t is that of a patient of the given age
StageOfAge(t, age) ==
    \/ t = "adult" /\ 18 <= age /\ age <= 64
    \/ t = "older_adult" /\ age >= 65
    \/ t \in {"pediatric", "child"} /\ 0 <= age /\ age < 18

\* C26: the Age sub-score of a row is positive only when the row's Age field
\* has a life-stage token that is the stage of the patient's age; against a
\* field whose only token is older_adult a patient of 18 to 64 scores 0, and
\* against a field with pediatric or child a patient below 18, 0 included,
\* scores 2.0.
C26_AgeScoreFollowsLifeStage ==
    Scored =>
        \A i \in DOMAIN last_match.scores_and_details :
            "Age" \in DOMAIN last_match.scores_and_details[i].field_scores =>
                /\ SubScoreOf(i, "Age") > 0 =>
                       \E t \in LifeStages(FieldOf(i, "Age")) : StageOfAge(t, AgeOfPatient)
                /\ (/\ 18 <= AgeOfPatient /\ AgeOfPatient <= 64
                    /\ LifeStages(FieldOf(i, "Age")) = {"older_adult"})
                       => SubScoreOf(i, "Age") = 0
                /\ (/\ 0 <= AgeOfPatient /\ AgeOfPatient < 18
                    /\ LifeStages(FieldOf(i, "Age")) \cap {"pediatric", "child"} # {})
                       => SubScoreOf(i, "Age") = 20

\* the demographic entities name one sex and not the other
OnlySex(sex, other) ==
    /\ SeqContains(BundleOf(last_match).demographics, sex)
    /\ ~SeqContains(BundleOf(last_match).demographics, other)

\* C27: for a patient whose demographic entities say female and not male, a
\* row whose Sex field is female gets a strictly higher Sex sub-score than a
\* row whose Sex field is male; and the other way round for a male patient.
C27_SexScoreDiscriminates ==
    Scored =>
        \A i, j \in DOMAIN last_match.scores_and_details :
            (/\ "Sex" \in DOMAIN last_match.scores_and_details[i].field_scores
             /\ FieldOf(i, "Sex") = "female"
             /\ FieldOf(j, "Sex") = "male") =>
                /\ OnlySex("female", "male") => SubScoreOf(i, "Sex") > SubScoreOf(j, "Sex")
                /\ OnlySex("male", "female") => SubScoreOf(j, "Sex") > SubScoreOf(i, "Sex")

(***************************************************************************)
(* Properties of the eligibility parser                                     *)
(***************************************************************************)
\* the criteria the last parse put in the list of type
ParsedIn(type) == IF last_parse.made THEN ToSet(last_parse.result[type]) ELSE {}

\* how many of the keywords occur in text
KeywordsIn(keywords, text) ==
    Cardinality({k \in 1..Len(keywords) : StrContains(text, keywords[k])})

\* how many of the two negative-language patterns occur in text, whose words
\* are separated by single spaces
NegativesIn(text) ==
    (IF \E w \in {"no", "not", "without", "lacking", "absence", "free of"} :
           ContainsWholeWord(text, w) THEN 1 ELSE 0)
    + (IF \E w \in {"cannot", "unable", "prohibited", "contraindicated"} :
             ContainsWholeWord(text, w) THEN 1 ELSE 0)

\* the classification rule: an exclusion keyword, or more negative patterns
\* than inclusion keywords
RuleExcludes(text) ==
    \/ KeywordsIn(exclusion_keywords, text) > 0
    \/ NegativesIn(text) > KeywordsIn(inclusion_keywords, text)

\* C11: a fragment is classified as an exclusion criterion exactly when it
\* contains an exclusion keyword or more negative-language patterns than
\* inclusion keywords; otherwise, a tie of the two counts included, it is an
\* inclusion criterion.
C11_ExclusionIffKeywordOrMoreNegatives ==
    /\ \A c \in ParsedIn("exclusion") : c.criterion_type = "exclusion" /\ RuleExcludes(c.text)
    /\ \A c \in ParsedIn("inclusion") : c.criterion_type = "inclusion" /\ ~RuleExcludes(c.text)

\* a fragment with no exclusion keyword and as many negative patterns as
\* inclusion keywords, one at least, was put in the inclusion list
C11_Witness ==
    \E c \in ParsedIn("inclusion") :
        /\ KeywordsIn(exclusion_keywords, c.text) = 0
        /\ NegativesIn(c.text) > 0
        /\ NegativesIn(c.text) = KeywordsIn(inclusion_keywords, c.text)

\* the criteria of the last parse, of either list, whose text is text
ParsedWithText(type, text) == {c \in ParsedIn(type) : c.text = text}

\* the two fragments of the example text
AgeFragment == "age " \o GreaterEq \o " 18 years"
ChemoFragment == "prior chemotherapy excluded"

\* C12: on "Age >= 18 years. Prior chemotherapy excluded." (with the sign
\* U+2265), parse_eligibility_text puts the first fragment in the inclusion
\* list with category age and the second in the exclusion list with category
\* medication.
C12_AgeIncludedChemoExcluded ==
    (last_parse.made /\ last_parse.text = AgeAndChemoText) =>
        /\ ParsedWithText("inclusion", AgeFragment) # {}
        /\ \A c \in ParsedWithText("inclusion", AgeFragment) : c.category = "age"
        /\ ParsedWithText("exclusion", AgeFragment) = {}
        /\ ParsedWithText("exclusion", ChemoFragment) # {}
        /\ \A c \in ParsedWithText("exclusion", ChemoFragment) : c.category = "medication"
        /\ ParsedWithText("inclusion", ChemoFragment) = {}

\* the example text was parsed and gave criteria in both lists
C12_Witness ==
    /\ last_parse.made
    /\ last_parse.text = AgeAndChemoText
    /\ ParsedIn("inclusion") # {}
    /\ ParsedIn("exclusion") # {}

\* the fragments of each text, and the pattern matches of each fragment
FragmentsMemo ==
    ListOf([t \in 1..Len(EligTexts) |-> _split_into_criteria(StrStrip(StrLower(EligTexts[t])))])

MatchesMemo ==
    ListOf([t \in 1..Len(EligTexts) |->
        ListOf([k \in 1..Len(FragmentsMemo[t]) |-> Candidates(FragmentsMemo[t][k], 1)])])

\* the confidence of a match of the region matched, in tenths: 0.5, 0.2 for the
\* whole region, 0.1 for more than 10 characters, 0.1 for a medical term, at
\* most 1.0
ClaimedConfidence(region) ==
    Min(10, 5 + 2 + (IF Len(region) > 10 THEN 1 ELSE 0)
              + (IF \E term \in {"cancer", "tumor", "malignant", "metastatic", "biomarker"} :
                       StrContains(region, term) THEN 1 ELSE 0))

\* criterion c carries the category and the confidence of a match of ms that
\* no match of ms exceeds
CarriesBestOf(c, ms) ==
    /\ c.confidence \in 4..10
    /\ \E j \in DOMAIN ms :
        /\ ms[j].category = c.category
        /\ ClaimedConfidence(ms[j].match.g0) = c.confidence
    /\ \A j \in DOMAIN ms : ClaimedConfidence(ms[j].match.g0) <= c.confidence

\* C13: an emitted criterion carries the category and the confidence of a
\* pattern match of greatest confidence in its fragment, the confidence being
\* 0.5 + 0.2 + 0.1 for a matched region of more than 10 characters + 0.1 for a
\* medical term in it, within [0, 1] and above 0.3; a fragment that matches no
\* pattern gives no criterion in either list.
C13_CriterionCarriesBestMatch ==
    last_parse.made =>
        \A k \in DOMAIN FragmentsMemo[last_parse.t] :
            /\ \A c \in ParsedWithText("inclusion", FragmentsMemo[last_parse.t][k])
                        \cup ParsedWithText("exclusion", FragmentsMemo[last_parse.t][k]) :
                   CarriesBestOf(c, MatchesMemo[last_parse.t][k])
            /\ MatchesMemo[last_parse.t][k] = <<>> =>
                   /\ ParsedWithText("inclusion", FragmentsMemo[last_parse.t][k]) = {}
                   /\ ParsedWithText("exclusion", FragmentsMemo[last_parse.t][k]) = {}

\* a criterion of confidence 0.9 was emitted for a fragment that also has a
\* match of lower confidence in another category, and another fragment of the
\* text matches no pattern
C13_Witness ==
    /\ last_parse.made
    /\ \E k \in DOMAIN FragmentsMemo[last_parse.t] :
        /\ \E c \in ParsedWithText("inclusion", FragmentsMemo[last_parse.t][k]) :
               c.confidence = 9
        /\ \E j \in DOMAIN MatchesMemo[last_parse.t][k] :
               /\ ClaimedConfidence(MatchesMemo[last_parse.t][k][j].match.g0) < 9
               /\ MatchesMemo[last_parse.t][k][j].category # "condition"
    /\ \E k \in DOMAIN FragmentsMemo[last_parse.t] : MatchesMemo[last_parse.t][k] = <<>>

\* the results of the last match_patient_to_criteria
Results == last_eval.results

\* the sum of the scores of the entries of a list of matches
ScoreSum(matches) == SumSeq([k \in 1..Len(matches) |-> matches[k].score])

\* C14: overall_score is the sum of the scores of the matched inclusion
\* criteria minus twice the sum of the scores of the matched exclusion
\* criteria; criteria that do not match add nothing.
C14_OverallIsInclusionMinusTwiceExclusion ==
    last_eval.made =>
        Results.overall_score =
            ScoreSum(Results.inclusion_matches) - 2 * ScoreSum(Results.exclusion_matches)

\* an evaluation with a matched inclusion and a matched exclusion criterion,
\* and criteria of both types that do not match
C14_Witness ==
    /\ last_eval.made
    /\ ScoreSum(Results.inclusion_matches) > 0
    /\ ScoreSum(Results.exclusion_matches) > 0
    /\ Results.inclusion_violations # <<>>

\* C15: when exactly one inclusion criterion and exactly one exclusion
\* criterion match the patient, overall_score is not greater than 0.
C15_OneInclusionNeverOutweighsOneExclusion ==
    (/\ last_eval.made
     /\ Len(Results.inclusion_matches) = 1
     /\ Len(Results.exclusion_matches) = 1) => Results.overall_score <= 0

\* the entries of the four lists of the results, each with whether it is a
\* match
Evaluated ==
    IF last_eval.made
    THEN {[e |-> e, matched |-> TRUE] :
             e \in ToSet(Results.inclusion_matches) \cup ToSet(Results.exclusion_matches)}
         \cup {[e |-> e, matched |-> FALSE] :
                  e \in ToSet(Results.inclusion_violations)
                        \cup ToSet(Results.exclusion_violations)}
    ELSE {}

\* the numeric tokens of the patient value and of the criterion value of an
\* entry
PatientTokens(e) == FindNumbers(StrLower(PatientGet(last_eval.patient_data, e.category)))
CriterionTokens(e) == FindNumbers(StrLower(e.criterion.value))

\* the operator of the criterion applied to the first tokens p and c, in
\* hundredths, an absent operator being = with the tolerance of 0.1
OperatorHolds(p, c, operator) ==
    CASE operator = ">" -> p > c
      [] operator = "<" -> p < c
      [] operator \in {"=", NoOperator} -> p - c < 10 /\ c - p < 10

\* C16: a criterion of category age, weight or laboratory matches exactly
\* when the first numeric tokens p of the patient value and c of the criterion
\* value satisfy its operator, p > c for >, p < c for <, |p - c| < 0.1 for =
\* and for an absent operator; a match scores 1.0.
C16_NumericOperatorWithDefaultTolerance ==
    \A x \in Evaluated :
        (/\ x.e.category \in {"age", "weight", "laboratory"}
         /\ x.e.criterion.operator \in {">", "<", "=", NoOperator}
         /\ PatientTokens(x.e) # <<>>
         /\ CriterionTokens(x.e) # <<>>) =>
            /\ x.matched = OperatorHolds(FloatOf(PatientTokens(x.e)[1].g0),
                                         FloatOf(CriterionTokens(x.e)[1].g0),
                                         x.e.criterion.operator)
            /\ x.matched => x.e.score = ScoreUnit

\* the value of the patient or of the criterion cannot be evaluated: no
\* numeric token in a numeric category, an empty or missing value in another
NotEvaluable(patient_data, criterion, category) ==
    IF category \in {"age", "weight", "laboratory"}
    THEN \/ FindNumbers(StrLower(PatientGet(patient_data, category))) = <<>>
         \/ FindNumbers(StrLower(criterion.value)) = <<>>
    ELSE PatientGet(patient_data, category) = "" \/ criterion.value = ""

\* the criteria of the dict of a type, each with its category
CriteriaOf(by_category) ==
    UNION {{[category |-> category, criterion |-> by_category[category][k]] :
               k \in 1..Len(by_category[category])} : category \in DOMAIN by_category}

\* the number of criteria of the dict of a type
CountOf(by_category) ==
    SumSeq([c \in 1..Len(structured_categories) |-> Len(by_category[structured_categories[c]])])

\* every criterion of by_category was recorded once, and one that cannot be
\* evaluated under violations with a reason
RecordedAll(by_category, matches, violations) ==
    /\ Len(matches) + Len(violations) = CountOf(by_category)
    /\ \A x \in CriteriaOf(by_category) :
        NotEvaluable(last_eval.patient_data, x.criterion, x.category) =>
            /\ \E v \in ToSet(violations) :
                /\ v.category = x.category
                /\ v.criterion = x.criterion
                /\ v.reason # ""
            /\ \A m \in ToSet(matches) :
                ~(m.category = x.category /\ m.criterion = x.criterion)

Normalized == StrStrip(StrLower(last_parse.text))

\* the sentences of the text: the non-empty stripped pieces between full stops
\* and semicolons
SentencesOf(text) == StripAll(ReSplit(SentenceSep, text), 1)

\* the text has no bullet marker and no numbered-list marker
NoMarkers(text) ==
    /\ ~StrContains(text, Bullet) /\ ~StrContains(text, "-") /\ ~StrContains(text, "*")
    /\ \A i \in 1..Len(text) :
           IsDigit(CharAt(text, i)) => CharAt(text, i + 1) \notin {".", ")"}

\* C28: for a text with no bullet or numbered-list marker the fragments of
\* _split_into_criteria are its sentences, each once, and the inclusion and
\* exclusion lists of parse_eligibility_text together have at most one
\* criterion per sentence.
C28_OneFragmentPerSentence ==
    (last_parse.made /\ StrStrip(last_parse.text) # "" /\ NoMarkers(Normalized)) =>
        /\ _split_into_criteria(Normalized) = SentencesOf(Normalized)
        /\ Len(last_parse.result["inclusion"]) + Len(last_parse.result["exclusion"])
               <= Len(SentencesOf(Normalized))

\* the entries of the results for an age criterion with operator between
\* whose value holds the two numbers of a range, evaluated for a patient with
\* a numeric age
RangeEntries ==
    {x \in Evaluated :
        /\ x.e.category = "age"
        /\ x.e.criterion.operator = "between"
        /\ Len(CriterionTokens(x.e)) = 2
        /\ PatientTokens(x.e) # <<>>}

\* C29: an age criterion with operator between and value lo-hi is a match
\* exactly when the numeric age p of the patient satisfies lo <= p <= hi.
C29_BetweenEvaluatedAsRange ==
    \A x \in RangeEntries :
        x.matched = (/\ FloatOf(CriterionTokens(x.e)[1].g0) <= FloatOf(PatientTokens(x.e)[1].g0)
                     /\ FloatOf(PatientTokens(x.e)[1].g0) <= FloatOf(CriterionTokens(x.e)[2].g0))

(***************************************************************************)
(* Properties of the geographic matcher                                     *)
(***************************************************************************)
\* the Location the patient location of the last call resolves to, or None
PatientLoc ==
    parse_location_string(last_filter.patient_location, last_filter.service).location

\* the last call returned a table
FilterReturned == last_filter.made /\ last_filter.call.outcome = "returned"

\* the rows of the table the last call returned
FilterRows == last_filter.call.result.rows

\* row r is a row of the input of the last call, its own cells unchanged
IsInputRow(r) ==
    \E j \in DOMAIN last_filter.trials_df.rows :
        /\ last_filter.trials_df.rows[j].index = r.index
        /\ \A c \in DOMAIN last_filter.trials_df.rows[j].cells :
               c \in DOMAIN r.cells /\ r.cells[c] = last_filter.trials_df.rows[j].cells[c]

\* C18: the call returns rows of its input, none added and none twice, and
\* when the patient location was resolved every returned row has a
\* distance_miles of at most max_distance_miles.
C18_ReturnsInputRowsWithinRadius ==
    last_filter.made =>
        /\ FilterReturned
        /\ Len(FilterRows) <= Len(last_filter.trials_df.rows)
        /\ \A k \in DOMAIN FilterRows : IsInputRow(FilterRows[k])
        /\ \A k, j \in DOMAIN FilterRows : FilterRows[k].index = FilterRows[j].index => k = j
        /\ PatientLoc # PyNone =>
               \A k \in DOMAIN FilterRows :
                   /\ "distance_miles" \in DOMAIN FilterRows[k].cells
                   /\ FilterRows[k].cells["distance_miles"]
                          <= 100 * last_filter.max_distance_miles

\* C19: when the patient location cannot be resolved to coordinates, the call
\* raises no error and returns its input unchanged: the same rows in the same
\* order, without distance columns.
C19_UnresolvedLocationReturnsInput ==
    (last_filter.made /\ PatientLoc = PyNone) =>
        /\ FilterReturned
        /\ last_filter.call.result = last_filter.trials_df

\* the facilities of a row whose location parses, and the least distance of
\* the patient from one of them
FacilitiesOf(row) == ToSet(_extract_trial_locations(row, last_filter.service))

IsLeastDistance(d, row) ==
    /\ \E f \in FacilitiesOf(row) : calculate_distance(PatientLoc, f.location) = d
    /\ \A f \in FacilitiesOf(row) : calculate_distance(PatientLoc, f.location) >= d

\* C20: when a match set is filtered around a resolved patient location, the
\* call returns the kept trials, each with distance_miles the least distance
\* of the patient from its parseable facilities and closest_facility a
\* facility at that distance; a trial none of whose facilities parses is not
\* in the output.
C20_DistanceIsLeastOverFacilities ==
    (last_filter.made /\ last_filter.trials_df.rows # <<>> /\ PatientLoc # PyNone) =>
        /\ FilterReturned
        /\ \A k \in DOMAIN FilterRows :
            /\ FacilitiesOf(FilterRows[k]) # {}
            /\ IsLeastDistance(FilterRows[k].cells["distance_miles"], FilterRows[k])
            /\ \E f \in FacilitiesOf(FilterRows[k]) :
                /\ f.facility_name = FilterRows[k].cells["closest_facility"]
                /\ calculate_distance(PatientLoc, f.location)
                       = FilterRows[k].cells["distance_miles"]

\* C21: when a match set is filtered around a resolved patient location, the
\* call returns the kept rows in ascending order of distance_miles, whatever
\* the order of the input.
C21_ReturnedRowsAscendingByDistance ==
    (last_filter.made /\ last_filter.trials_df.rows # <<>> /\ PatientLoc # PyNone) =>
        /\ FilterReturned
        /\ \A k, j \in DOMAIN FilterRows :
               k < j => FilterRows[k].cells["distance_miles"]
                            <= FilterRows[j].cells["distance_miles"]

GazetteerEntries(location_str) ==
    {k \in 1..Len(us_cities) :
        \E n \in 0..2 :
            LET prefix == us_cities[k].city \o SubSeq("  ", 1, n) \o ","
            IN  /\ Len(location_str) >= Len(prefix)
                /\ StrLower(SubSeq(location_str, 1, Len(prefix))) = prefix}

\* the geocoder answers the city of the location string during the call
Answered(location_str, service) ==
    \E c \in service.answers :
        /\ Len(location_str) > Len(c)
        /\ StrLower(SubSeq(location_str, 1, Len(c) + 1)) = c \o ","

SuggestPatientLoc ==
    parse_location_string(last_suggest.patient_location, last_suggest.service).location

\* the last suggestion call returned a list
SuggestReturned == last_suggest.made /\ last_suggest.call.outcome = "returned"

\* the list the last suggestion call returned
Suggestions == last_suggest.call.result

\* the facility entries of a row: the stripped, non-empty pieces of its
\* Locations cell
EntriesOf(row) ==
    IF LocationsStr(row) = "nan" THEN {}
    ELSE {StrStrip(e) : e \in ToSet(SplitAny(LocationsStr(row), {";", "|"}, 1, 1))} \ {""}

\* the city/state locations at which a row has a facility
CityStatesOf(row) ==
    {CityStateOf(SplitOn(e, ",")) : e \in {f \in EntriesOf(row) : Len(SplitOn(f, ",")) >= 3}}

\* the number of trials of the candidate set that have a facility at city_state
TrialsAt(city_state) ==
    Cardinality({k \in DOMAIN last_suggest.trials_df.rows :
                    city_state \in CityStatesOf(last_suggest.trials_df.rows[k])})

\* the city/state locations that host at least 3 trials of the candidate set
HostLocations ==
    {c \in UNION {CityStatesOf(last_suggest.trials_df.rows[k]) :
                     k \in DOMAIN last_suggest.trials_df.rows} : TrialsAt(c) >= 3}

\* C24: for a resolved patient location the call returns the first
\* max_suggestions of the locations that host at least 3 trials, each once with
\* trial_count the number of trials that have a facility there, in the order
\* of trial count descending and then distance ascending; no location with
\* fewer than 3 trials is returned.
C24_SuggestionsAreLocationsOfThreeTrials ==
    (last_suggest.made /\ SuggestPatientLoc # PyNone) =>
        /\ SuggestReturned
        /\ Len(Suggestions) = Min(last_suggest.max_suggestions, Cardinality(HostLocations))
        /\ \A k \in DOMAIN Suggestions :
            /\ Suggestions[k].location \in HostLocations
            /\ Suggestions[k].trial_count = TrialsAt(Suggestions[k].location)
        /\ \A k, j \in DOMAIN Suggestions :
            /\ Suggestions[k].location = Suggestions[j].location => k = j
            /\ k < j =>
                \/ Suggestions[k].trial_count > Suggestions[j].trial_count
                \/ /\ Suggestions[k].trial_count = Suggestions[j].trial_count
                   /\ Suggestions[k].distance_miles <= Suggestions[j].distance_miles

\* C30: a suggestion call raises nothing and returns a list, whatever the
\* Locations cells of the candidate set are (two-part entries, empty or
\* missing cells, places no one can geocode); the list is empty when the
\* patient location cannot be resolved.
C30_SuggestNeverRaises ==
    last_suggest.made =>
        /\ SuggestReturned
        /\ SuggestPatientLoc = PyNone => Suggestions = <<>>

(***************************************************************************)
(* Properties of the CSV cleaner                                            *)
(***************************************************************************)
\* the cell holds a raw markup fragment: a "<" that opens or closes a tag
HasMarkup(cell) ==
    \E i \in 1..Len(cell) :
        /\ CharAt(cell, i) = "<"
        /\ CharAt(cell, i + 1) = "/" \/ CharIn(CharAt(cell, i + 1), LowerChars)
                                      \/ CharIn(CharAt(cell, i + 1), UpperChars)

\* the data row is well formed for a header of num_cols columns
WellFormed(row, num_cols) ==
    Len(row) = num_cols /\ \A c \in DOMAIN row : ~HasMarkup(row[c])

\* C25: a run of clean_csv on a file with a header writes the header and
\* exactly the well-formed data rows, in their order; the rows kept and the
\* rows removed add up to the data rows read, and no malformed row is written.
C25_CleanFileHasExactlyWellFormedRows ==
    (last_clean.made /\ last_clean.rows # <<>>) =>
        /\ clean_file.written
        /\ clean_file.rows =
               <<last_clean.rows[1]>>
               \o SelectSeq(Tail(last_clean.rows),
                            LAMBDA row : WellFormed(row, Len(last_clean.rows[1])))
        /\ last_clean.report.kept + last_clean.report.bad_rows = Len(last_clean.rows) - 1

(***************************************************************************)
(* Specifications                                                           *)
(***************************************************************************)
\* the parser before any call
EligibilityIdle == last_parse = NoParse /\ structured = NoStructure /\ last_eval = NoEval

\* the geographic matcher not called, under an interpreter that evaluates
\* annotations
GeoIdle ==
    /\ deferred_annotations = FALSE
    /\ last_filter = NoFilter
    /\ last_distance = NoDistance
    /\ last_location = NoLocation
    /\ last_suggest = NoSuggest

\* the cleaner not run, on an empty raw file
CleanerIdle == raw_file = <<>> /\ clean_file = NotWritten /\ last_clean = NoClean

Init == ExtractorInit /\ MatcherInit /\ EligibilityInit /\ GeoInit /\ CleanerInit

\* a step of the extractor: a call on one of the texts
ExtractorNext ==
    \E t \in 1..Len(Texts), n \in 1..Len(NerAnswers), o \in Orders, keep \in BOOLEAN :
        CallExtract(t, n, o, keep) /\ UNCHANGED <<matcher_vars, eligibility_vars, geo_vars, cleaner_vars>>

\* a step of the matcher: a query, or the results of one dropped
MatcherNext ==
    \/ \E b \in DOMAIN MatcherBundles :
         MatchPatientToTrials(b) /\ UNCHANGED <<extractor_vars, eligibility_vars, geo_vars, cleaner_vars>>
    \/ NewQuery /\ UNCHANGED <<extractor_vars, eligibility_vars, geo_vars, cleaner_vars>>

\* a step of the eligibility parser: a text parsed or structured, or a patient
\* matched to the criteria structured last
EligibilityNext ==
    \/ \E t \in 1..Len(EligTexts) :
         ParseEligibilityText(t) /\ UNCHANGED <<extractor_vars, matcher_vars, geo_vars, cleaner_vars>>
    \/ \E t \in 1..Len(EligTexts) :
         StructureEligibilityCriteria(t) /\ UNCHANGED <<extractor_vars, matcher_vars, geo_vars, cleaner_vars>>
    \/ \E p \in 1..Len(EligPatients) :
         MatchPatientToCriteria(p) /\ UNCHANGED <<extractor_vars, matcher_vars, geo_vars, cleaner_vars>>

\* a step of the geographic matcher: a match set filtered, or the outcome of a
\* call dropped
GeoNext ==
    \/ \E tb \in 1..Len(GeoTables), loc \in 1..Len(PatientLocations), r \in 1..Len(Radii),
          service \in Services :
         FilterTrialsByLocation(tb, loc, r, service)
         /\ UNCHANGED <<extractor_vars, matcher_vars, eligibility_vars, cleaner_vars>>
    \/ NewFilter /\ UNCHANGED <<extractor_vars, matcher_vars, eligibility_vars, cleaner_vars>>
    \/ \E a \in 1..Len(CityLocations), b \in 1..Len(CityLocations) :
         CalculateDistance(a, b) /\ UNCHANGED <<extractor_vars, matcher_vars, eligibility_vars, cleaner_vars>>
    \/ NewDistance /\ UNCHANGED <<extractor_vars, matcher_vars, eligibility_vars, cleaner_vars>>
    \/ \E k \in 1..Len(LocationStrings), service \in Services :
         ParseLocationString(k, service)
         /\ UNCHANGED <<extractor_vars, matcher_vars, eligibility_vars, cleaner_vars>>
    \/ NewLocation /\ UNCHANGED <<extractor_vars, matcher_vars, eligibility_vars, cleaner_vars>>
    \/ \E loc \in 1..Len(PatientLocations), tb \in 1..Len(SuggestTables),
          m \in 1..Len(MaxSuggestions), service \in Services :
         SuggestAlternativeLocations(loc, tb, m, service)
         /\ UNCHANGED <<extractor_vars, matcher_vars, eligibility_vars, cleaner_vars>>
    \/ NewSuggest /\ UNCHANGED <<extractor_vars, matcher_vars, eligibility_vars, cleaner_vars>>

\* a step of the cleaner: a run of clean_csv
CleanerNext ==
    CleanCsv /\ UNCHANGED <<extractor_vars, matcher_vars, eligibility_vars, geo_vars>>

Next ==
    \/ ExtractorNext
    \/ MatcherNext
    \/ EligibilityNext
    \/ GeoNext
    \/ CleanerNext

\* the whole program: queries extract and match in any order
Spec == Init /\ [][Next]_vars

\* the matcher with no query made and no trial loaded
MatcherIdle == trials_df = MakeTable(0, 0, 0, 1) /\ last_match = NoMatch

\* the extractor constructed, the other components idle
InitExtractor == ExtractorInit /\ MatcherIdle /\ EligibilityIdle /\ GeoIdle /\ CleanerIdle

\* the extractor alone
SpecExtractor == InitExtractor /\ [][ExtractorNext]_vars

\* the extractor before any call, its model not loaded
ExtractorIdle == model_available = Construct(TRUE) /\ last_call = NoCall /\ kept_call = NoCall

\* a trial table loaded, the other components idle
InitMatcher == MatcherInit /\ ExtractorIdle /\ EligibilityIdle /\ GeoIdle /\ CleanerIdle

\* the matcher alone
SpecMatcher == InitMatcher /\ [][MatcherNext]_vars

\* the parser constructed, the other components idle
InitEligibility == EligibilityInit /\ ExtractorIdle /\ MatcherIdle /\ GeoIdle /\ CleanerIdle

\* the eligibility parser alone
SpecEligibility == InitEligibility /\ [][EligibilityNext]_vars

\* the geographic matcher under either interpreter, the other components idle
InitGeo == GeoInit /\ ExtractorIdle /\ MatcherIdle /\ EligibilityIdle /\ CleanerIdle

\* the geographic matcher alone
SpecGeo == InitGeo /\ [][GeoNext]_vars

\* a raw file on disk, the other components idle
InitCleaner == CleanerInit /\ ExtractorIdle /\ MatcherIdle /\ EligibilityIdle /\ GeoIdle

\* the cleaner alone
SpecCleaner == InitCleaner /\ [][CleanerNext]_vars

=============================================================================
